---- MODULE Spec2Model ----
(***************************************************************************)
(* A state-machine model of the chroma_wave native extension: the Device   *)
(* lifecycle, the busy-wait engine, the Tier-2 hooks and the jobs that run *)
(* without the host lock (ext/chroma_wave/device.c, driver_registry.c,     *)
(* tier2_overrides.c, mock_hal.c).                                         *)
(***************************************************************************)
EXTENDS Integers, Sequences, FiniteSets, TLC

(* ------------------------------------------------------------------ *)
(* Bounds of the model                                                 *)
(* ------------------------------------------------------------------ *)

\* Largest timeout_ms a direct read_busy call is given.
MaxTimeout == 3
\* How many times one device may successfully pass DEV_Module_Init.
MaxInits == 2

\* Longest init sequence interpreted.
MaxSeqLen == 4

\* How many set_pixel calls one Framebuffer gets.
MaxSets == 1

(* ------------------------------------------------------------------ *)
(* chroma_wave.h                                                       *)
(* ------------------------------------------------------------------ *)

EPD_OK == 0
EPD_ERR_TIMEOUT == 0 - 1
EPD_ERR_INIT == 0 - 2
EPD_ERR_PARAM == 0 - 3
\* Used by device.c and tier2_overrides.c; its #define is not in the sources.
EPD_ERR_ALLOC == 0 - 4

BUSY_ACTIVE_LOW == 0
BUSY_ACTIVE_HIGH == 1

PIXEL_FORMAT_MONO == 1
PIXEL_FORMAT_GRAY4 == 2
PIXEL_FORMAT_COLOR4 == 3
PIXEL_FORMAT_COLOR7 == 4

EPD_MODE_FULL == 0
EPD_MODE_FAST == 1
EPD_MODE_PARTIAL == 2
EPD_MODE_GRAYSCALE == 3

SEQ_SET_CURSOR == 249
SEQ_SET_WINDOW == 250
SEQ_SW_RESET == 251
SEQ_HW_RESET == 252
SEQ_DELAY_MS == 253
SEQ_END == 254
SEQ_WAIT_BUSY == 255

\* driver_registry.h: 5000 ms in the program.  The polling loop is the same for
\* every value, so the model polls with a small number of milliseconds.
EPD_BUSY_TIMEOUT_MS == MaxTimeout - 1
EPD_MAX_DIMENSION == 4096

DEVICE_CLOSED == 0
DEVICE_OPEN == 1

\* A null pointer (config, driver, hook, buffer).
NULL == "NULL"

(* ------------------------------------------------------------------ *)
(* HAL events.  A trace is the sequence of HAL-level events of one     *)
(* call: <<"cmd", c>>, <<"data", d>>, <<"bulk", bytes>>,               *)
(* <<"delay", ms>>, <<"read", pin>>, <<"reset", 0>>.                   *)
(* ------------------------------------------------------------------ *)

Cmd(c) == <<"cmd", c>>
Data(v) == <<"data", v>>
Bulk(b) == <<"bulk", b>>
Delay(ms) == <<"delay", ms>>
Read(v) == <<"read", v>>

IsCmd(e, c) == e[1] = "cmd" /\ e[2] = c

HasCmd(tr, c) == \E k \in 1..Len(tr) : IsCmd(tr[k], c)


(* ------------------------------------------------------------------ *)
(* Model registry (driver_registry.c).  The static config table        *)
(* (driver_configs_generated.h) is input data: the model holds a few   *)
(* entries, with the dimensions scaled down so that buffers stay small. *)
(* ------------------------------------------------------------------ *)

\* Names of the config table the model carries.
ModelNames ==
  {"epd_2in13", "epd_1in64g", "epd_5in65f", "epd_7in5_v2", "epd_2in7_v2", "epd_5in83_v2"}

\* A name that is in no table.
UnknownName == "epd_bogus"

ModelConfig(name) ==
  CASE name = "epd_2in13" ->
         [name |-> name, width |-> 9, height |-> 1, pixel_format |-> PIXEL_FORMAT_MONO,
          busy_polarity |-> BUSY_ACTIVE_HIGH, display_cmd |-> 36, display_cmd_2 |-> 0,
          init_sequence |-> <<SEQ_HW_RESET, SEQ_SW_RESET, 1, 1, 249, SEQ_SET_WINDOW, SEQ_END>>,
          init_fast_sequence |-> <<>>,
          init_partial_sequence |-> <<SEQ_HW_RESET, 44, 1, 38, SEQ_WAIT_BUSY>>,
          sleep_cmd |-> 16, sleep_data |-> 1]
    [] name = "epd_1in64g" ->
         [name |-> name, width |-> 3, height |-> 1, pixel_format |-> PIXEL_FORMAT_COLOR4,
          busy_polarity |-> BUSY_ACTIVE_LOW, display_cmd |-> 16, display_cmd_2 |-> 0,
          init_sequence |-> <<SEQ_HW_RESET, 102, 2, 73, 85, SEQ_WAIT_BUSY>>,
          init_fast_sequence |-> <<>>, init_partial_sequence |-> <<>>,
          sleep_cmd |-> 7, sleep_data |-> 165]
    [] name = "epd_5in65f" ->
         [name |-> name, width |-> 2, height |-> 2, pixel_format |-> PIXEL_FORMAT_COLOR7,
          busy_polarity |-> BUSY_ACTIVE_LOW, display_cmd |-> 16, display_cmd_2 |-> 0,
          init_sequence |-> <<SEQ_HW_RESET, SEQ_WAIT_BUSY, 0, 2, 239, 8, SEQ_DELAY_MS, 100, SEQ_END>>,
          init_fast_sequence |-> <<>>, init_partial_sequence |-> <<>>,
          sleep_cmd |-> 7, sleep_data |-> 165]
    [] name = "epd_7in5_v2" ->
         [name |-> name, width |-> 16, height |-> 1, pixel_format |-> PIXEL_FORMAT_MONO,
          busy_polarity |-> BUSY_ACTIVE_LOW, display_cmd |-> 16, display_cmd_2 |-> 19,
          init_sequence |-> <<SEQ_HW_RESET, 1, 2, 7, 7, 4, 0, SEQ_DELAY_MS, 100, SEQ_WAIT_BUSY, SEQ_END>>,
          init_fast_sequence |-> <<SEQ_HW_RESET, 4, 0, SEQ_WAIT_BUSY, SEQ_END>>,
          init_partial_sequence |-> <<>>,
          sleep_cmd |-> 7, sleep_data |-> 165]
    [] name = "epd_2in7_v2" ->
         [name |-> name, width |-> 8, height |-> 2, pixel_format |-> PIXEL_FORMAT_MONO,
          busy_polarity |-> BUSY_ACTIVE_HIGH, display_cmd |-> 36, display_cmd_2 |-> 38,
          init_sequence |-> <<SEQ_HW_RESET, SEQ_WAIT_BUSY, SEQ_SW_RESET, SEQ_SET_WINDOW, SEQ_SET_CURSOR, SEQ_END>>,
          init_fast_sequence |-> <<>>, init_partial_sequence |-> <<>>,
          sleep_cmd |-> 16, sleep_data |-> 1]
    [] name = "epd_5in83_v2" ->
         [name |-> name, width |-> 10, height |-> 1, pixel_format |-> PIXEL_FORMAT_MONO,
          busy_polarity |-> BUSY_ACTIVE_LOW, display_cmd |-> 16, display_cmd_2 |-> 19,
          init_sequence |-> <<SEQ_HW_RESET, 1, 1, 7, 4, 0, SEQ_WAIT_BUSY>>,
          init_fast_sequence |-> <<>>, init_partial_sequence |-> <<>>,
          sleep_cmd |-> 7, sleep_data |-> 165]

\* The result is the config's name (a pointer into the table) or NULL.
epd_find_config(name) == IF name \in ModelNames THEN name ELSE NULL

tier2_model_names ==
  <<"epd_13in3k", "epd_1in02d", "epd_1in54", "epd_1in64g", "epd_2in13", "epd_2in15g",
    "epd_2in36g", "epd_2in7", "epd_2in7_v2", "epd_2in9", "epd_3in0g", "epd_3in52",
    "epd_3in7", "epd_4in01f", "epd_4in2", "epd_4in26", "epd_4in2_v2", "epd_4in37g",
    "epd_5in65f", "epd_5in83bc", "epd_7in3e", "epd_7in3f", "epd_7in3g", "epd_7in5_v2",
    "epd_7in5bc">>

TIER2_COUNT == Len(tier2_model_names)

\* The index of the driver slot of the model name, or 0 for no slot.
find_driver_slot(target) ==
  IF \E i \in 1..TIER2_COUNT : tier2_model_names[i] = target
  THEN CHOOSE i \in 1..TIER2_COUNT :
         /\ tier2_model_names[i] = target
         /\ \A k \in 1..(i - 1) : tier2_model_names[k] /= target
  ELSE 0

\* A driver slot with every hook cleared (tier2_resolve_configs; the two
\* regional fields are zero as static storage).
NoHooks ==
  [custom_init |-> NULL, custom_display |-> NULL, pre_display |-> NULL,
   post_display |-> NULL, custom_display_region |-> NULL, post_display_region |-> NULL]

\* The assignments tier2_register_overrides makes under "if (d)" for a name.
Overrides(name) ==
  CASE name = "epd_1in54" ->
         [NoHooks EXCEPT !.custom_init = "epd_1in54_init",
                         !.post_display = "ssd1680_turn_on_display"]
    [] name = "epd_2in13" ->
         [NoHooks EXCEPT !.custom_init = "epd_2in13_init",
                         !.post_display = "ssd1680_turn_on_display"]
    [] name = "epd_2in9" ->
         [NoHooks EXCEPT !.custom_init = "epd_2in9_init",
                         !.post_display = "ssd1680_turn_on_display"]
    [] name = "epd_4in2" -> [NoHooks EXCEPT !.post_display = "epd_4in2_post_display"]
    [] name \in {"epd_4in2_v2", "epd_4in26", "epd_13in3k"} ->
         [NoHooks EXCEPT !.post_display = "ssd1677_turn_on_display"]
    [] name \in {"epd_1in64g", "epd_2in15g", "epd_2in36g", "epd_3in0g", "epd_4in37g"} ->
         [NoHooks EXCEPT !.pre_display = "color_pre_display", !.post_display = "color_post_display"]
    [] name = "epd_7in3e" ->
         [NoHooks EXCEPT !.pre_display = "color_7in3_pre_display",
                         !.post_display = "epd_7in3e_post_display"]
    [] name \in {"epd_7in3f", "epd_7in3g"} ->
         [NoHooks EXCEPT !.pre_display = "color_7in3_pre_display",
                         !.post_display = "color_7in3_post_display"]
    [] name \in {"epd_4in01f", "epd_5in65f"} ->
         [NoHooks EXCEPT !.post_display = "acep_post_display"]
    [] name = "epd_5in83bc" -> [NoHooks EXCEPT !.post_display = "epd_5in83bc_post_display"]
    [] name = "epd_2in7" ->
         [NoHooks EXCEPT !.custom_display = "epd_2in7_display",
                         !.post_display = "epd_2in7_post_display"]
    [] name = "epd_2in7_v2" ->
         [NoHooks EXCEPT !.custom_display = "epd_2in7_v2_display",
                         !.post_display = "ssd1677_turn_on_display",
                         !.post_display_region = "ssd1680_turn_on_display_partial"]
    [] name = "epd_7in5_v2" ->
         [NoHooks EXCEPT !.custom_display = "epd_7in5_v2_display",
                         !.post_display = "epd_7in5_v2_post_display"]
    [] name = "epd_7in5bc" ->
         [NoHooks EXCEPT !.custom_display = "epd_7in5bc_display",
                         !.post_display = "epd_7in5bc_post_display"]
    [] name = "epd_1in02d" -> [NoHooks EXCEPT !.post_display = "epd_1in02d_post_display"]
    [] name = "epd_3in52" -> [NoHooks EXCEPT !.post_display = "epd_3in52_post_display"]
    [] name = "epd_3in7" -> [NoHooks EXCEPT !.post_display = "epd_3in7_post_display"]
    [] name = "epd_2in9b_v4" ->
         [NoHooks EXCEPT !.post_display_region = "ssd1680_turn_on_display_partial"]
    [] name = "epd_13in3b" ->
         [NoHooks EXCEPT !.post_display_region = "ssd1677_turn_on_display_partial"]
    [] name = "epd_5in83_v2" ->
         [NoHooks EXCEPT !.custom_display_region = "epd_5in83_v2_display_region",
                         !.post_display_region = "uc8179_post_display_region"]
    [] name = "epd_7in5b_v2" ->
         [NoHooks EXCEPT !.custom_display_region = "epd_7in5b_v2_display_region",
                         !.post_display_region = "uc8179_post_display_region"]
    [] OTHER -> NoHooks

\* The hooks of a name after registration: the overrides reach a driver only
\* through the slot find_driver_slot returns.
tier2_register_overrides(name) ==
  IF find_driver_slot(name) /= 0 THEN Overrides(name) ELSE NoHooks

\* The driver of a name (identified by the name of its slot), or NULL.
epd_find_driver(name) ==
  IF \E i \in 1..TIER2_COUNT :
       /\ epd_find_config(tier2_model_names[i]) /= NULL
       /\ tier2_model_names[i] = name
  THEN name
  ELSE NULL

\* The hook table of a device's driver pointer.
DriverHooks(drv) == IF drv = NULL THEN NoHooks ELSE tier2_register_overrides(drv)


(* ------------------------------------------------------------------ *)
(* Tier-2 hooks (tier2_overrides.c).  A pre/post hook is a program: a   *)
(* sequence of HAL events to emit and of busy-waits, <<"busy", "cfg">>  *)
(* for epd_read_busy(cfg->busy_polarity, EPD_BUSY_TIMEOUT_MS, cancel)   *)
(* and <<"busy", "low">> for epd_wait_busy_low.  Every busy-wait of a   *)
(* hook is followed by "if (rc != EPD_OK) return rc" or is its return   *)
(* value (HookAfterBusy below).                                         *)
(* ------------------------------------------------------------------ *)

Busy(sel) == <<"busy", sel>>

ssd1680_turn_on_display == <<Cmd(34), Data(196), Cmd(32), Cmd(255), Busy("cfg")>>
epd_4in2_post_display == <<Cmd(18), Delay(100), Busy("cfg")>>
ssd1677_turn_on_display == <<Cmd(34), Data(247), Cmd(32), Busy("cfg")>>
color_pre_display == <<Cmd(104), Data(1), Cmd(4), Busy("cfg")>>
color_post_display ==
  <<Cmd(104), Data(0), Cmd(18), Data(1), Busy("cfg"), Cmd(2), Data(0), Busy("cfg")>>
color_7in3_pre_display == <<>>
epd_7in3e_post_display ==
  <<Cmd(4), Busy("cfg"), Cmd(6), Data(111), Data(31), Data(23), Data(23),
    Cmd(18), Data(0), Busy("cfg"), Cmd(2), Data(0), Busy("cfg")>>
color_7in3_post_display ==
  <<Cmd(4), Busy("cfg"), Cmd(18), Data(0), Busy("cfg"), Cmd(2), Data(0), Busy("cfg")>>
acep_post_display ==
  <<Cmd(4), Busy("cfg"), Cmd(18), Busy("cfg"), Cmd(2), Busy("low"), Delay(200)>>
epd_5in83bc_post_display == <<Cmd(4), Busy("cfg"), Cmd(18), Delay(100), Busy("cfg")>>
epd_2in7_post_display == <<Cmd(18), Busy("cfg")>>
epd_7in5_v2_post_display == <<Cmd(18), Delay(100), Busy("cfg")>>
epd_7in5bc_post_display == <<Cmd(4), Busy("cfg"), Cmd(18), Delay(100), Busy("cfg")>>
epd_1in02d_post_display == <<Cmd(4), Busy("cfg"), Cmd(18), Busy("cfg"), Cmd(2), Busy("cfg")>>
epd_3in52_post_display == <<Cmd(18), Delay(100), Busy("cfg")>>
epd_3in7_post_display == <<Cmd(18), Delay(100), Busy("cfg")>>
ssd1680_turn_on_display_partial == <<Cmd(34), Data(28), Cmd(32), Busy("cfg")>>
ssd1677_turn_on_display_partial == <<Cmd(34), Data(255), Cmd(32), Busy("cfg")>>
uc8179_post_display_region == <<Busy("cfg"), Cmd(146)>>

\* The function a hook pointer refers to.
HookProg(h) ==
  CASE h = "ssd1680_turn_on_display" -> ssd1680_turn_on_display
    [] h = "epd_4in2_post_display" -> epd_4in2_post_display
    [] h = "ssd1677_turn_on_display" -> ssd1677_turn_on_display
    [] h = "color_pre_display" -> color_pre_display
    [] h = "color_post_display" -> color_post_display
    [] h = "color_7in3_pre_display" -> color_7in3_pre_display
    [] h = "epd_7in3e_post_display" -> epd_7in3e_post_display
    [] h = "color_7in3_post_display" -> color_7in3_post_display
    [] h = "acep_post_display" -> acep_post_display
    [] h = "epd_5in83bc_post_display" -> epd_5in83bc_post_display
    [] h = "epd_2in7_post_display" -> epd_2in7_post_display
    [] h = "epd_7in5_v2_post_display" -> epd_7in5_v2_post_display
    [] h = "epd_7in5bc_post_display" -> epd_7in5bc_post_display
    [] h = "epd_1in02d_post_display" -> epd_1in02d_post_display
    [] h = "epd_3in52_post_display" -> epd_3in52_post_display
    [] h = "epd_3in7_post_display" -> epd_3in7_post_display
    [] h = "ssd1680_turn_on_display_partial" -> ssd1680_turn_on_display_partial
    [] h = "ssd1677_turn_on_display_partial" -> ssd1677_turn_on_display_partial
    [] h = "uc8179_post_display_region" -> uc8179_post_display_region

(* ------------------------------------------------------------------ *)
(* Data-write steps.  Each returns [rc, out]: the result code and the   *)
(* HAL events it emits.  A buffer is a sequence of bytes; the empty     *)
(* sequence is the buffer of a Framebuffer that was allocated and never *)
(* initialized (buffer NULL, buffer_size 0).                            *)
(* ------------------------------------------------------------------ *)

\* Faulty variant of InvertBytes: the copy is not inverted.
InvertBytes_same(b) == b

RECURSIVE InvertBytes(_)
InvertBytes(b) == IF b = <<>> THEN <<>> ELSE <<255 - Head(b)>> \o InvertBytes(Tail(b))

\* Faulty variant of epd_generic_display: the buffer is sent again after the
\* second command.
epd_generic_display_dual_payload(cfg, buf) ==
  IF buf = <<>> THEN [rc |-> EPD_ERR_PARAM, out |-> <<>>]
  ELSE [rc |-> EPD_OK,
        out |-> <<Cmd(cfg.display_cmd), Bulk(buf)>>
                \o (IF cfg.display_cmd_2 /= 0 THEN <<Cmd(cfg.display_cmd_2), Bulk(buf)>>
                                              ELSE <<>>)]

\* A buffer that is null or of length 0 is the empty sequence.
epd_generic_display(cfg, buf) ==
  IF buf = <<>> THEN [rc |-> EPD_ERR_PARAM, out |-> <<>>]
  ELSE [rc |-> EPD_OK,
        out |-> <<Cmd(cfg.display_cmd), Bulk(buf)>>
                \o (IF cfg.display_cmd_2 /= 0 THEN <<Cmd(cfg.display_cmd_2)>> ELSE <<>>)]

\* epd_generic_display_region is called by device.c and defined in no source
\* file: the generic fallback that writes the whole buffer.
epd_generic_display_region(cfg, buf) == epd_generic_display(cfg, buf)

epd_2in7_display(cfg, buf) ==
  IF buf = <<>> THEN [rc |-> EPD_ERR_PARAM, out |-> <<>>]
  ELSE [rc |-> EPD_OK,
        out |-> <<Cmd(cfg.display_cmd), Bulk(buf), Cmd(cfg.display_cmd_2), Bulk(buf)>>]

epd_2in7_v2_display(cfg, buf) ==
  IF buf = <<>> THEN [rc |-> EPD_ERR_PARAM, out |-> <<>>]
  ELSE [rc |-> EPD_OK,
        out |-> <<Cmd(cfg.display_cmd), Bulk(buf), Cmd(cfg.display_cmd_2), Bulk(buf)>>]

\* Faulty variant of epd_7in5_v2_display: the second command is sent before the
\* allocation.
epd_7in5_v2_display_early_cmd(cfg, buf, malloc_ok) ==
  IF buf = <<>> THEN [rc |-> EPD_ERR_PARAM, out |-> <<>>, allocated |-> 0, freed |-> 0]
  ELSE IF ~malloc_ok
       THEN [rc |-> EPD_ERR_ALLOC,
             out |-> <<Cmd(cfg.display_cmd), Bulk(buf), Cmd(cfg.display_cmd_2)>>,
             allocated |-> 0, freed |-> 0]
       ELSE [rc |-> EPD_OK,
             out |-> <<Cmd(cfg.display_cmd), Bulk(buf),
                       Cmd(cfg.display_cmd_2), Bulk(InvertBytes(buf))>>,
             allocated |-> 1, freed |-> 1]

\* malloc_ok: whether malloc(len) returned a buffer.  allocated: the buffers
\* malloc returned; freed: the calls of free.
epd_7in5_v2_display(cfg, buf, malloc_ok) ==
  IF buf = <<>> THEN [rc |-> EPD_ERR_PARAM, out |-> <<>>, allocated |-> 0, freed |-> 0]
  ELSE IF ~malloc_ok
       THEN [rc |-> EPD_ERR_ALLOC, out |-> <<Cmd(cfg.display_cmd), Bulk(buf)>>,
             allocated |-> 0, freed |-> 0]
       ELSE [rc |-> EPD_OK,
             out |-> <<Cmd(cfg.display_cmd), Bulk(buf),
                       Cmd(cfg.display_cmd_2), Bulk(InvertBytes(buf))>>,
             allocated |-> 1, freed |-> 1]

epd_7in5bc_display(cfg, buf) ==
  IF buf = <<>> THEN [rc |-> EPD_ERR_PARAM, out |-> <<>>]
  ELSE [rc |-> EPD_OK, out |-> <<Cmd(cfg.display_cmd), Bulk(buf)>>]

\* The byte buf[idx] (idx 0-based); 256 stands for a byte read outside the buffer.
BufAt(buf, idx) == IF idx < Len(buf) THEN buf[idx + 1] ELSE 256

\* The bytes epd_send_data_bulk(buf + offset, n) transmits.
Slice(buf, offset, n) == [k \in 1..n |-> BufAt(buf, offset + k - 1)]

\* The locals of the UC8179 regional data-writes (uint16_t arithmetic).
RegionLocals(cfg, r) ==
  [full_width_bytes |-> ((cfg.width + 7) \div 8) % 65536,
   x_byte_start |-> r.x \div 8,
   region_width_bytes |-> ((r.w + 7) \div 8) % 65536,
   x_end |-> (r.x + r.w - 1) % 65536,
   y_end |-> (r.y + r.h - 1) % 65536]

\* Faulty variant of RegionWindow: the x bytes are sent as they are, not
\* aligned to the byte of eight pixels.
RegionWindow_unaligned(r, l) ==
  <<Cmd(145), Cmd(144),
    Data(r.x \div 256), Data(r.x % 256),
    Data(l.x_end \div 256), Data(l.x_end % 256),
    Data(r.y \div 256), Data(r.y % 256),
    Data(l.y_end \div 256), Data(l.y_end % 256), Data(1)>>

\* send_command(0x91); send_command(0x90) and its nine data bytes.
RegionWindow(r, l) ==
  <<Cmd(145), Cmd(144),
    Data(r.x \div 256), Data((r.x % 256) - (r.x % 8)),
    Data(l.x_end \div 256), Data((l.x_end % 256) - (l.x_end % 8) + 7),
    Data(r.y \div 256), Data(r.y % 256),
    Data(l.y_end \div 256), Data(l.y_end % 256), Data(1)>>

\* send_command(0x13) and one bulk write per row.
RegionRows(buf, r, l) ==
  <<Cmd(19)>> \o
  [row \in 1..r.h |->
     Bulk(Slice(buf, (r.y + row - 1) * l.full_width_bytes + l.x_byte_start,
                l.region_width_bytes))]

epd_5in83_v2_display_region(cfg, buf, r) ==
  LET l == RegionLocals(cfg, r)
  IN  IF buf = <<>> \/ Len(buf) < l.full_width_bytes * cfg.height
      THEN [rc |-> EPD_ERR_PARAM, out |-> <<>>]
      ELSE [rc |-> EPD_OK,
            out |-> RegionWindow(r, l) \o RegionRows(buf, r, l) \o <<Cmd(18), Delay(100)>>]

epd_7in5b_v2_display_region(cfg, buf, r, malloc_ok) ==
  LET l == RegionLocals(cfg, r)
  IN  IF buf = <<>> \/ Len(buf) < l.full_width_bytes * cfg.height
      THEN [rc |-> EPD_ERR_PARAM, out |-> <<>>]
      ELSE IF ~malloc_ok
           THEN [rc |-> EPD_ERR_ALLOC, out |-> RegionWindow(r, l)]
           ELSE [rc |-> EPD_OK,
                 out |-> RegionWindow(r, l)
                         \o <<Cmd(16), Bulk([k \in 1..(l.region_width_bytes * r.h) |-> 255])>>
                         \o RegionRows(buf, r, l) \o <<Cmd(18), Delay(100)>>]

\* drv->custom_display_region(cfg, buf, len, x, y, w, h) through the pointer h.
CustomDisplayRegion(h, cfg, buf, r, malloc_ok) ==
  CASE h = "epd_5in83_v2_display_region" -> epd_5in83_v2_display_region(cfg, buf, r)
    [] h = "epd_7in5b_v2_display_region" -> epd_7in5b_v2_display_region(cfg, buf, r, malloc_ok)

\* drv->custom_display(cfg, buf, len) through the function pointer h.
CustomDisplay(h, cfg, buf, malloc_ok) ==
  CASE h = "epd_2in7_display" -> epd_2in7_display(cfg, buf)
    [] h = "epd_2in7_v2_display" -> epd_2in7_v2_display(cfg, buf)
    [] h = "epd_7in5_v2_display" -> epd_7in5_v2_display(cfg, buf, malloc_ok)
    [] h = "epd_7in5bc_display" -> epd_7in5bc_display(cfg, buf)

epd_generic_sleep(cfg) == <<Cmd(cfg.sleep_cmd), Data(cfg.sleep_data)>>

\* epd_reset: three RST writes, each followed by its delay.
epd_reset(cfg) == <<<<"reset", 0>>>>

(* ------------------------------------------------------------------ *)
(* clear helpers (device.c)                                            *)
(* ------------------------------------------------------------------ *)

clear_width_byte(width, fmt) ==
  CASE fmt = PIXEL_FORMAT_MONO -> ((width + 7) \div 8) % 65536
    [] fmt = PIXEL_FORMAT_GRAY4 -> ((width + 3) \div 4) % 65536
    [] fmt \in {PIXEL_FORMAT_COLOR4, PIXEL_FORMAT_COLOR7} -> ((width + 1) \div 2) % 65536
    [] OTHER -> ((width + 7) \div 8) % 65536

\* Faulty variant of clear_fill_byte: 0xFF for every format.
clear_fill_byte_all_ff(fmt) == 255

clear_fill_byte(fmt) ==
  CASE fmt = PIXEL_FORMAT_MONO -> 255
    [] fmt = PIXEL_FORMAT_GRAY4 -> 255
    [] fmt = PIXEL_FORMAT_COLOR4 -> 17
    [] fmt = PIXEL_FORMAT_COLOR7 -> 17
    [] OTHER -> 255

\* The buffer device_epd_clear allocates and fills.
ClearBuffer(cfg) ==
  [k \in 1..(clear_width_byte(cfg.width, cfg.pixel_format) * cfg.height)
     |-> clear_fill_byte(cfg.pixel_format)]


(* ------------------------------------------------------------------ *)
(* Busy-wait engine (device.c, epd_read_busy).  One call is a frame     *)
(* [phase, polarity, timeout_ms, i, flag]; flag is NULL when the        *)
(* cancel_flag pointer is null.  The loop is cut at its three points:   *)
(* "poll" (loop test and cancel check), "read" (DEV_Digital_Read and    *)
(* the polarity test) and "delay" (DEV_Delay_ms(1) and i++).            *)
(* ------------------------------------------------------------------ *)

NoBusy == [phase |-> "off", polarity |-> 0, timeout_ms |-> 0, i |-> 0, flag |-> NULL]

ReadBusyEnter(polarity, timeout_ms, flag) ==
  [phase |-> "poll", polarity |-> polarity, timeout_ms |-> timeout_ms, i |-> 0, flag |-> flag]

\* Faulty variant of ReadBusyPoll: the cancel flag is not looked at.
ReadBusyPoll_no_cancel(rb, cancel_val) ==
  IF ~(rb.i < rb.timeout_ms)
  THEN [done |-> TRUE, rc |-> EPD_ERR_TIMEOUT, rb |-> NoBusy]
  ELSE [done |-> FALSE, rc |-> EPD_OK, rb |-> [rb EXCEPT !.phase = "read"]]

\* Faulty variant of ReadBusyPoll: the loop runs one time more than timeout_ms.
ReadBusyPoll_one_more(rb, cancel_val) ==
  IF ~(rb.i <= rb.timeout_ms)
  THEN [done |-> TRUE, rc |-> EPD_ERR_TIMEOUT, rb |-> NoBusy]
  ELSE IF rb.flag /= NULL /\ cancel_val /= 0
       THEN [done |-> TRUE, rc |-> EPD_ERR_TIMEOUT, rb |-> NoBusy]
       ELSE [done |-> FALSE, rc |-> EPD_OK, rb |-> [rb EXCEPT !.phase = "read"]]

\* for (...; i < timeout_ms; ...) { if (cancel_flag && *cancel_flag) return TIMEOUT;
\* cancel_val is the value read through the pointer.
ReadBusyPoll(rb, cancel_val) ==
  IF ~(rb.i < rb.timeout_ms)
  THEN [done |-> TRUE, rc |-> EPD_ERR_TIMEOUT, rb |-> NoBusy]
  ELSE IF rb.flag /= NULL /\ cancel_val /= 0
       THEN [done |-> TRUE, rc |-> EPD_ERR_TIMEOUT, rb |-> NoBusy]
       ELSE [done |-> FALSE, rc |-> EPD_OK, rb |-> [rb EXCEPT !.phase = "read"]]

\* Faulty variant of NotBusy: the polarity is ignored, LOW always means idle.
NotBusy_low_is_idle(polarity, pin_val) == pin_val = 0

\* The polarity test on the value DEV_Digital_Read returned.
NotBusy(polarity, pin_val) ==
  IF polarity = BUSY_ACTIVE_HIGH THEN pin_val = 0 ELSE pin_val = 1

ReadBusyRead(rb, pin_val) ==
  IF NotBusy(rb.polarity, pin_val)
  THEN [done |-> TRUE, rc |-> EPD_OK, rb |-> NoBusy]
  ELSE [done |-> FALSE, rc |-> EPD_OK, rb |-> [rb EXCEPT !.phase = "delay"]]

ReadBusyDelay(rb) == [rb EXCEPT !.i = @ + 1, !.phase = "poll"]

\* epd_wait_busy_low / the polarity a hook's busy-wait polls with.
BusyPolarity(sel, cfg) == IF sel = "low" THEN BUSY_ACTIVE_LOW ELSE cfg.busy_polarity

(* ------------------------------------------------------------------ *)
(* Hook execution: run the hook from instruction ip, emitting events,   *)
(* up to its next busy-wait or its end.                                 *)
(* ------------------------------------------------------------------ *)

RECURSIVE RunHook(_, _, _)
RunHook(prog, ip, tr) ==
  IF ip > Len(prog) THEN [at |-> "end", ip |-> ip, tr |-> tr]
  ELSE IF prog[ip][1] = "busy" THEN [at |-> "busy", ip |-> ip, tr |-> tr]
  ELSE RunHook(prog, ip + 1, Append(tr, prog[ip]))

\* Faulty variant of HookAfterBusy: the hook goes on whatever the busy-wait returned.
HookAfterBusy_goes_on(rc) == FALSE

\* rc = epd_read_busy(...); if (rc != EPD_OK) return rc;   (TRUE: the hook returns rc)
HookAfterBusy(rc) == rc /= EPD_OK

(* ------------------------------------------------------------------ *)
(* Init-sequence interpreter (driver_registry.c).  A sequence pointer   *)
(* that is NULL is the empty sequence.                                  *)
(* ------------------------------------------------------------------ *)

\* Faulty variant of select_init_sequence: no fallback, Fast and Partial select
\* their sequence whether it is there or not.
select_init_sequence_no_fallback(cfg, mode) ==
  CASE mode = EPD_MODE_FAST -> cfg.init_fast_sequence
    [] mode = EPD_MODE_PARTIAL -> cfg.init_partial_sequence
    [] OTHER -> cfg.init_sequence

select_init_sequence(cfg, mode) ==
  CASE mode = EPD_MODE_FAST /\ cfg.init_fast_sequence /= <<>> -> cfg.init_fast_sequence
    [] mode = EPD_MODE_PARTIAL /\ cfg.init_partial_sequence /= <<>> -> cfg.init_partial_sequence
    [] OTHER -> cfg.init_sequence

Min(a, b) == IF a < b THEN a ELSE b

\* The events of SEQ_SET_WINDOW: the bytes are cast to uint8_t.
SetWindow(cfg) ==
  LET x_end == ((cfg.width - 1) \div 8) % 65536
      y_end == (cfg.height - 1) % 65536
  IN  <<Cmd(68), Data(0), Data(x_end % 256),
        Cmd(69), Data(0), Data(0), Data(y_end % 256), Data(y_end \div 256)>>

SetCursor == <<Cmd(78), Data(0), Cmd(79), Data(0), Data(0)>>

\* Faulty variant of Payload: a payload byte with a sentinel's value is not sent.
Payload_drops_sentinels(seq, p2, n) ==
  SelectSeq([k \in 1..n |-> Data(seq[p2 + k])], LAMBDA e : e[2] < 240)

\* for (i = 0; i < count; i++) epd_send_data(seq[pos++]);  -- the n bytes after the
\* 0-based position p2 - 1 of the count byte, whatever their value.
Payload(seq, p2, n) == [k \in 1..n |-> Data(seq[p2 + k])]

\* Faulty variant of Truncated: the end of the stream inside a record ends the
\* call with Ok.
Truncated_returns_ok(pos, out) ==
  [act |-> "ret", rc |-> EPD_OK, pos |-> pos, out |-> out]

\* if (pos >= seq_len) return EPD_ERR_PARAM;  -- at position pos, after the
\* events out of the iteration.
Truncated(pos, out) ==
  [act |-> "ret", rc |-> EPD_ERR_PARAM, pos |-> pos, out |-> out]

\* One iteration of the while loop, from the 0-based position pos < Len(seq).
\* act: "cont" (next iteration), "busy" (a busy-wait starts; the loop goes on
\* at pos if it returns Ok), "ret" (return rc).
InterpStep(cfg, seq, pos) ==
  LET byte == seq[pos + 1]
      p1 == pos + 1
      len == Len(seq)
  IN  IF byte >= 240
      THEN CASE byte = SEQ_END -> [act |-> "ret", rc |-> EPD_OK, pos |-> p1, out |-> <<>>]
             [] byte = SEQ_WAIT_BUSY -> [act |-> "busy", rc |-> EPD_OK, pos |-> p1, out |-> <<>>]
             [] byte = SEQ_DELAY_MS ->
                  IF p1 >= len
                  THEN Truncated(p1, <<>>)
                  ELSE [act |-> "cont", rc |-> EPD_OK, pos |-> p1 + 1,
                        out |-> <<Delay(seq[p1 + 1])>>]
             [] byte = SEQ_HW_RESET ->
                  [act |-> "cont", rc |-> EPD_OK, pos |-> p1, out |-> epd_reset(cfg)]
             [] byte = SEQ_SW_RESET ->
                  [act |-> "busy", rc |-> EPD_OK, pos |-> p1, out |-> <<Cmd(18)>>]
             [] byte = SEQ_SET_WINDOW ->
                  [act |-> "cont", rc |-> EPD_OK, pos |-> p1, out |-> SetWindow(cfg)]
             [] byte = SEQ_SET_CURSOR ->
                  [act |-> "cont", rc |-> EPD_OK, pos |-> p1, out |-> SetCursor]
             [] OTHER -> [act |-> "cont", rc |-> EPD_OK, pos |-> p1, out |-> <<>>]
      ELSE IF p1 >= len
           THEN Truncated(p1, <<>>)
           ELSE LET count == seq[p1 + 1]
                    p2 == p1 + 1
                    n == Min(count, len - p2)
                    payload == Payload(seq, p2, n)
                IN  IF n < count
                    THEN Truncated(p2 + n, <<Cmd(byte)>> \o payload)
                    ELSE [act |-> "cont", rc |-> EPD_OK, pos |-> p2 + n,
                          out |-> <<Cmd(byte)>> \o payload]

\* The while loop from pos up to its return or its next busy-wait.
RECURSIVE InterpRun(_, _, _, _)
InterpRun(cfg, seq, pos, tr) ==
  IF ~(pos < Len(seq)) THEN [at |-> "ret", rc |-> EPD_OK, pos |-> pos, tr |-> tr]
  ELSE LET s == InterpStep(cfg, seq, pos)
       IN  CASE s.act = "cont" -> InterpRun(cfg, seq, s.pos, tr \o s.out)
             [] s.act = "busy" -> [at |-> "busy", rc |-> EPD_OK, pos |-> s.pos, tr |-> tr \o s.out]
             [] s.act = "ret" -> [at |-> "ret", rc |-> s.rc, pos |-> s.pos, tr |-> tr \o s.out]

\* epd_generic_init up to its return or its first busy-wait.
epd_generic_init(cfg, mode, tr) ==
  LET seq == select_init_sequence(cfg, mode)
  IN  IF seq = <<>> THEN [at |-> "ret", rc |-> EPD_ERR_PARAM, pos |-> 0, tr |-> tr]
      ELSE InterpRun(cfg, seq, 0, tr)

lut_2in13_full ==
  <<34, 85, 170, 85, 170, 85, 170, 17, 0, 0, 0, 0, 0, 0, 0, 0,
    30, 30, 30, 30, 30, 30, 30, 30, 1, 0, 0, 0, 0, 0>>

lut_2in13_partial ==
  <<24, 0, 0, 0, 0, 0, 0, 0, 0, 0, 0, 0, 0, 0, 0, 0,
    15, 1, 0, 0, 0, 0, 0, 0, 0, 0, 0, 0, 0, 0>>

\* What epd_2in13_init does after epd_generic_init returned rc: [rc, out].
epd_2in13_init(rc, mode) ==
  IF rc /= EPD_OK THEN [rc |-> rc, out |-> <<>>]
  ELSE [rc |-> EPD_OK,
        out |-> <<Cmd(50), Bulk(IF mode = EPD_MODE_PARTIAL THEN lut_2in13_partial
                                                        ELSE lut_2in13_full)>>]

\* The tail of dev->driver->custom_init (h), or of the generic path (h = NULL).
CustomInitTail(h, rc, mode) ==
  IF h = "epd_2in13_init" THEN epd_2in13_init(rc, mode) ELSE [rc |-> rc, out |-> <<>>]


(* ------------------------------------------------------------------ *)
(* State                                                               *)
(* ------------------------------------------------------------------ *)

VARIABLES
  state,            \* device_t.state of each Device
  config,           \* device_t.config: a config name or NULL
  driver,           \* device_t.driver: a driver name or NULL
  cancel,           \* device_t.cancel
  alive,            \* the Device object has not been freed
  job,              \* the call in progress on each Device (args struct, position)
  trace,            \* HAL events and step markers of the Device's latest call
  last,             \* the latest call of each Device: operation, outcome, state at entry
  n_init,           \* DEV_Module_Init calls that returned 0, per Device
  n_exit,           \* DEV_Module_Exit calls, per Device
  hal,              \* which HAL is linked: "mock" or "any" (any pin value may be read)
  mock_busy_state,  \* mock_hal.c: the process-wide toggle
  crashed,          \* a null config was dereferenced
  bw,               \* a direct call of epd_read_busy
  it,               \* a direct call of epd_generic_init
  fb,               \* a Framebuffer object
  fbs               \* two Framebuffer objects and the heap their buffers are in

vars ==
  <<state, config, driver, cancel, alive, job, trace, last, n_init, n_exit,
    hal, mock_busy_state, crashed, bw, it, fb, fbs>>

devvars ==
  <<state, config, driver, cancel, alive, job, trace, last, n_init, n_exit, crashed>>

Devices == DOMAIN state

\* Buffers a caller passes: an uninitialized Framebuffer's and two filled ones.
Bufs == {<<>>, <<0, 165>>}

Modes == {EPD_MODE_FULL, EPD_MODE_FAST, EPD_MODE_PARTIAL, EPD_MODE_GRAYSCALE}

\* Rectangles a caller passes to display_region (16-bit x, y, w, h).
Regions == {[x |-> 0, y |-> 0, w |-> 8, h |-> 1]}

NoRegion == [x |-> 0, y |-> 0, w |-> 0, h |-> 0]

IdleJob ==
  [kind |-> "none", pc |-> "idle", result |-> EPD_OK, buf |-> <<>>, buf2 |-> <<>>,
   region |-> NoRegion, hook |-> NULL, stage |-> "none", ip |-> 0, rb |-> NoBusy,
   mode |-> 0, pos |-> 0]

Snap(d) ==
  [state |-> state[d], config |-> config[d], driver |-> driver[d], cancel |-> cancel[d],
   n_init |-> n_init[d], n_exit |-> n_exit[d]]

NoCall == [op |-> "none", exc |-> "none", result |-> EPD_OK,
           before |-> [state |-> DEVICE_CLOSED, config |-> NULL, driver |-> NULL,
                       cancel |-> 0, n_init |-> 0, n_exit |-> 0]]

\* A finished call: exc is "none" for a normal return.
Called(d, op, exc, result) == [op |-> op, exc |-> exc, result |-> result, before |-> Snap(d)]

\* No direct call of epd_read_busy yet.  args: the call's arguments; cancel: the
\* int the cancel_flag pointer points to (when it is not null); rc: the return value.
NoDirectCall ==
  [rb |-> NoBusy, running |-> FALSE, returned |-> FALSE, rc |-> EPD_OK, cancel |-> 0,
   tr |-> <<>>]

\* No direct call of epd_generic_init yet.  seq: the init sequence of the config
\* passed; pos: the loop's read position; ps: the positions the loop iterations
\* started at; tr: the HAL events of the call; run: the number of the call on
\* this config; tr1 and rc1: the send_command / send_data calls and the result
\* of the call before it.
NoInterp ==
  [model |-> NULL, seq |-> <<>>, pos |-> 0, running |-> FALSE, returned |-> FALSE,
   rc |-> EPD_OK, rb |-> NoBusy, ps |-> <<>>, tr |-> <<>>, run |-> 0, tr1 |-> <<>>,
   rc1 |-> EPD_OK]

\* fb_alloc: the framebuffer_t of a new object; a NULL buffer is the empty sequence.
fb_alloc ==
  [buffer |-> <<>>, width |-> 0, height |-> 0, pixel_format |-> PIXEL_FORMAT_MONO,
   width_byte |-> 0, buffer_size |-> 0]

\* A method returned nil.
Qnil == 0 - 1

\* No call on the Framebuffer yet.  o: its framebuffer_t; last: the latest call
\* (arguments, exception raised, value returned, byte address computed); sets:
\* the set_pixel calls made; ub: a byte outside the buffer was accessed.
NoFb ==
  [o |-> fb_alloc,
   last |-> [op |-> "none", x |-> 0, y |-> 0, c |-> 0, exc |-> "none", ret |-> Qnil,
             addr |-> 0],
   sets |-> 0, ub |-> FALSE]

\* No Framebuffer yet.  heap: the buffers xmalloc returned, by address (1, 2,
\* ...); a and b: the two framebuffer_t, their buffer an address of the heap or
\* 0 for NULL; made: which of them exist; last: the latest call, its receiver
\* and the value returned; sets: the set_pixel calls made.
NoPair ==
  [heap |-> <<>>, a |-> [fb_alloc EXCEPT !.buffer = 0],
   b |-> [fb_alloc EXCEPT !.buffer = 0], made |-> {},
   last |-> [op |-> "none", on |-> "a", ret |-> FALSE], sets |-> 0]

\* device_alloc: every Device starts Closed with no config, no driver, cancel 0.
InitDevices(D) ==
  /\ state = [d \in D |-> DEVICE_CLOSED]
  /\ config = [d \in D |-> NULL]
  /\ driver = [d \in D |-> NULL]
  /\ cancel = [d \in D |-> 0]
  /\ alive = [d \in D |-> TRUE]
  /\ job = [d \in D |-> IdleJob]
  /\ trace = [d \in D |-> <<>>]
  /\ last = [d \in D |-> NoCall]
  /\ n_init = [d \in D |-> 0]
  /\ n_exit = [d \in D |-> 0]
  /\ crashed = FALSE

Init ==
  /\ InitDevices({"d1"})
  /\ hal \in {"mock", "any"}
  /\ mock_busy_state = 0
  /\ bw = NoDirectCall
  /\ it = NoInterp
  /\ fb = NoFb
  /\ fbs = NoPair

(* ------------------------------------------------------------------ *)
(* HAL                                                                 *)
(* ------------------------------------------------------------------ *)

\* Faulty variant of DEV_Digital_Read: the pin keeps its value.
DEV_Digital_Read_stuck(toggle) == toggle

\* mock_hal.c DEV_Digital_Read: the new value of the toggle, which it returns.
DEV_Digital_Read(toggle) == 1 - toggle

\* The values a pin read may return under the linked HAL.
PinValues == IF hal = "mock" THEN {DEV_Digital_Read(mock_busy_state)} ELSE {0, 1}

PinRead(v) ==
  /\ v \in PinValues
  /\ mock_busy_state' = IF hal = "mock" THEN v ELSE mock_busy_state
  /\ hal' = hal

(* ------------------------------------------------------------------ *)
(* Device lifecycle (device.c)                                         *)
(* ------------------------------------------------------------------ *)

\* A method may be called on d: the object is live and no call is in progress.
Callable(d) == alive[d] /\ job[d].kind = "none" /\ ~crashed

\* rc: what DEV_Module_Init returns if it is called.
device_initialize(d, name, rc) ==
  /\ Callable(d)
  /\ rc = 0 => n_init[d] < MaxInits
  /\ config' = [config EXCEPT ![d] = epd_find_config(name)]
  /\ IF epd_find_config(name) = NULL
     THEN /\ last' = [last EXCEPT ![d] = Called(d, "initialize", "ModelNotFoundError", EPD_OK)]
          /\ UNCHANGED <<driver, state, n_init>>
     ELSE /\ driver' = [driver EXCEPT ![d] = epd_find_driver(name)]
          /\ IF rc /= 0
             THEN /\ last' = [last EXCEPT ![d] = Called(d, "initialize", "InitError", rc)]
                  /\ UNCHANGED <<state, n_init>>
             ELSE /\ state' = [state EXCEPT ![d] = DEVICE_OPEN]
                  /\ n_init' = [n_init EXCEPT ![d] = @ + 1]
                  /\ last' = [last EXCEPT ![d] = Called(d, "initialize", "none", EPD_OK)]
  /\ trace' = [trace EXCEPT ![d] = IF epd_find_config(name) = NULL THEN <<>>
                                   ELSE << <<"module_init", rc>> >>]
  /\ UNCHANGED <<cancel, alive, job, n_exit, crashed, hal, mock_busy_state, bw, it, fb, fbs>>

\* if (dev->state == DEVICE_OPEN) { DEV_Module_Exit(); dev->state = DEVICE_CLOSED; }
CloseIfOpen(d) ==
  IF state[d] = DEVICE_OPEN
  THEN /\ n_exit' = [n_exit EXCEPT ![d] = @ + 1]
       /\ state' = [state EXCEPT ![d] = DEVICE_CLOSED]
       /\ trace' = [trace EXCEPT ![d] = << <<"module_exit", 0>> >>]
  ELSE /\ UNCHANGED <<n_exit, state>>
       /\ trace' = [trace EXCEPT ![d] = <<>>]

device_close(d) ==
  /\ Callable(d)
  /\ CloseIfOpen(d)
  /\ last' = [last EXCEPT ![d] = Called(d, "close", "none", EPD_OK)]
  /\ UNCHANGED <<config, driver, cancel, alive, job, n_init, crashed, hal, mock_busy_state, bw, it, fb, fbs>>

\* The garbage collector frees an unreferenced Device.
device_dfree(d) ==
  /\ Callable(d)
  /\ CloseIfOpen(d)
  /\ alive' = [alive EXCEPT ![d] = FALSE]
  /\ last' = [last EXCEPT ![d] = Called(d, "dfree", "none", EPD_OK)]
  /\ UNCHANGED <<config, driver, cancel, job, n_init, crashed, hal, mock_busy_state, bw, it, fb, fbs>>

\* open?: reads dev->state.
device_open_p(d) ==
  /\ Callable(d)
  /\ last' = [last EXCEPT ![d] = Called(d, "open?", "none", EPD_OK)]
  /\ trace' = [trace EXCEPT ![d] = << <<"return", state[d] = DEVICE_OPEN>> >>]
  /\ UNCHANGED <<state, config, driver, cancel, alive, job, n_init, n_exit, crashed,
                 hal, mock_busy_state, bw, it, fb, fbs>>

\* model_name: nil when dev->config is null, else the config's name.
device_model_name(d) ==
  /\ Callable(d)
  /\ last' = [last EXCEPT ![d] = Called(d, "model_name", "none", EPD_OK)]
  /\ trace' = [trace EXCEPT ![d] = << <<"return", config[d]>> >>]
  /\ UNCHANGED <<state, config, driver, cancel, alive, job, n_init, n_exit, crashed,
                 hal, mock_busy_state, bw, it, fb, fbs>>

\* Faulty variant of RequireOpen: the state is not checked.
RequireOpen_unchecked(d) == TRUE

\* device_require_open passes: dev->state == DEVICE_OPEN.
RequireOpen(d) == state[d] = DEVICE_OPEN

\* device_require_open raises DeviceError: the call ends before anything else.
RequireOpenRaises(d, op) ==
  /\ ~RequireOpen(d)
  /\ last' = [last EXCEPT ![d] = Called(d, op, "DeviceError", EPD_OK)]
  /\ trace' = [trace EXCEPT ![d] = <<>>]
  /\ UNCHANGED <<state, config, driver, cancel, alive, job, n_init, n_exit, crashed,
                 hal, mock_busy_state, bw, it, fb, fbs>>

\* The device passed device_require_open and has a config to work with.
Opened(d) == RequireOpen(d) /\ config[d] /= NULL

\* A hardware call on an Open device whose config is NULL dereferences it.
null_config_call(d) ==
  /\ Callable(d)
  /\ RequireOpen(d)
  /\ config[d] = NULL
  /\ crashed' = TRUE
  /\ UNCHANGED <<state, config, driver, cancel, alive, job, trace, last, n_init, n_exit,
                 hal, mock_busy_state, bw, it, fb, fbs>>

Cfg(d) == ModelConfig(config[d])
Hooks(d) == DriverHooks(driver[d])


(* ------------------------------------------------------------------ *)
(* Jobs: the harness under the host lock and the worker without it     *)
(* ------------------------------------------------------------------ *)

\* Faulty variant of CancelOf: one process-wide flag, set when any Device's is.
CancelOf_process_wide(d) == IF \E e \in Devices : cancel[e] /= 0 THEN 1 ELSE 0

\* The flag a worker and its hooks are given: &args->dev->cancel.
CancelOf(d) == cancel[d]

\* Faulty variant of ResetCancel: the flag keeps the value the last job left.
ResetCancel_kept(c) == c

\* "dev->cancel = 0" at job entry.
ResetCancel(c) == 0

\* The harness up to rb_thread_call_without_gvl: args packed, cancel reset.
StartJob(d, kind, buf, buf2, region) ==
  /\ Opened(d)
  /\ cancel' = [cancel EXCEPT ![d] = ResetCancel(@)]
  /\ job' = [job EXCEPT ![d] = [IdleJob EXCEPT !.kind = kind, !.pc = "pre", !.buf = buf,
                                               !.buf2 = buf2, !.region = region]]
  /\ trace' = [trace EXCEPT ![d] = <<>>]
  /\ last' = [last EXCEPT ![d] = Called(d, kind, "running", EPD_OK)]
  /\ UNCHANGED <<state, config, driver, alive, n_init, n_exit, crashed, hal,
                 mock_busy_state, bw, it, fb, fbs>>

device_epd_display(d, buf) ==
  /\ Callable(d)
  /\ \/ RequireOpenRaises(d, "display")
     \/ StartJob(d, "display", buf, <<>>, NoRegion)

device_epd_display_dual(d, black, red) ==
  /\ Callable(d)
  /\ \/ RequireOpenRaises(d, "display_dual")
     \/ StartJob(d, "display_dual", black, red, NoRegion)

device_epd_display_region(d, buf, r) ==
  /\ Callable(d)
  /\ \/ RequireOpenRaises(d, "display_region")
     \/ StartJob(d, "display_region", buf, <<>>, r)

device_epd_clear(d) ==
  /\ Callable(d)
  /\ \/ RequireOpenRaises(d, "clear")
     \/ /\ Opened(d)
        /\ StartJob(d, "clear", ClearBuffer(Cfg(d)), <<>>, NoRegion)

device_epd_sleep(d) ==
  /\ Callable(d)
  /\ \/ RequireOpenRaises(d, "sleep")
     \/ /\ Opened(d)
        /\ trace' = [trace EXCEPT ![d] = epd_generic_sleep(Cfg(d))]
        /\ last' = [last EXCEPT ![d] = Called(d, "sleep", "none", EPD_OK)]
        /\ UNCHANGED <<state, config, driver, cancel, alive, job, n_init, n_exit, crashed,
                       hal, mock_busy_state, bw, it, fb, fbs>>

\* Faulty variant of AfterHook: a failed pre_display does not end the job.
AfterHook_pre_ignored(j, rc) ==
  IF j.stage = "pre"
  THEN [j EXCEPT !.pc = "data", !.rb = NoBusy]
  ELSE [j EXCEPT !.result = IF rc /= EPD_OK THEN rc ELSE @, !.pc = "done", !.rb = NoBusy]

\* The hook of stage j.stage returned rc (display_without_gvl and its siblings):
\* pre_display: "if (rc != EPD_OK) { args->result = rc; return NULL; }"
\* post hook:   "if (rc != EPD_OK) { args->result = rc; }"
AfterHook(j, rc) ==
  IF j.stage = "pre"
  THEN IF rc /= EPD_OK
       THEN [j EXCEPT !.result = rc, !.pc = "done", !.rb = NoBusy]
       ELSE [j EXCEPT !.pc = "data", !.rb = NoBusy]
  ELSE [j EXCEPT !.result = IF rc /= EPD_OK THEN rc ELSE @, !.pc = "done", !.rb = NoBusy]

\* Run the hook of j from instruction ip to its next busy-wait or its return.
ContinueHook(j, tr, ip, cfg) ==
  LET prog == HookProg(j.hook)
      r == RunHook(prog, ip, tr)
  IN  IF r.at = "busy"
      THEN [j |-> [j EXCEPT !.pc = "busy", !.ip = r.ip,
                            !.rb = ReadBusyEnter(BusyPolarity(prog[r.ip][2], cfg),
                                                 EPD_BUSY_TIMEOUT_MS, "dev")],
            tr |-> r.tr]
      ELSE [j |-> AfterHook(j, EPD_OK), tr |-> Append(r.tr, <<"rc", j.stage, EPD_OK>>)]

\* Call the hook h as the job's pre or post stage.
StartHook(j, tr, h, stage, cfg) ==
  ContinueHook([j EXCEPT !.hook = h, !.stage = stage], Append(tr, <<"call", stage>>), 1, cfg)

\* if (drv && drv->pre_display) ...
worker_pre(d) ==
  /\ ~crashed
  /\ job[d].pc = "pre"
  /\ LET h == Hooks(d).pre_display
     IN  IF h /= NULL
         THEN LET r == StartHook(job[d], trace[d], h, "pre", Cfg(d))
              IN  /\ job' = [job EXCEPT ![d] = r.j]
                  /\ trace' = [trace EXCEPT ![d] = r.tr]
         ELSE /\ job' = [job EXCEPT ![d].pc = "data"]
              /\ UNCHANGED trace
  /\ UNCHANGED <<state, config, driver, cancel, alive, last, n_init, n_exit, crashed,
                 hal, mock_busy_state, bw, it, fb, fbs>>

\* The data-write of display_without_gvl (display and clear).
DisplayData(hk, cfg, buf, malloc_ok) ==
  IF hk.custom_display /= NULL
  THEN CustomDisplay(hk.custom_display, cfg, buf, malloc_ok)
  ELSE epd_generic_display(cfg, buf)

\* The data-write of display_region_without_gvl.
RegionData(hk, cfg, buf, r, malloc_ok) ==
  IF hk.custom_display_region /= NULL
  THEN CustomDisplayRegion(hk.custom_display_region, cfg, buf, r, malloc_ok)
  ELSE epd_generic_display_region(cfg, buf)

worker_data(d, malloc_ok) ==
  /\ ~crashed
  /\ job[d].pc = "data"
  /\ job[d].kind \in {"display", "clear", "display_region"}
  /\ LET r == IF job[d].kind = "display_region"
              THEN RegionData(Hooks(d), Cfg(d), job[d].buf, job[d].region, malloc_ok)
              ELSE DisplayData(Hooks(d), Cfg(d), job[d].buf, malloc_ok)
     IN  /\ job' = [job EXCEPT ![d].result = r.rc, ![d].pc = "post"]
         /\ trace' = [trace EXCEPT ![d] = (Append(@, <<"call", "data">>) \o r.out)
                                            \o << <<"rc", "data", r.rc>> >>]
  /\ UNCHANGED <<state, config, driver, cancel, alive, last, n_init, n_exit, crashed,
                 hal, mock_busy_state, bw, it, fb, fbs>>

\* display_dual_without_gvl: the black buffer.
worker_dual_black(d) ==
  /\ ~crashed
  /\ job[d].pc = "data"
  /\ job[d].kind = "display_dual"
  /\ job' = [job EXCEPT ![d].pc = "data2"]
  /\ trace' = [trace EXCEPT ![d] = @ \o << <<"call", "data">>, Cmd(Cfg(d).display_cmd),
                                           Bulk(job[d].buf) >>]
  /\ UNCHANGED <<state, config, driver, cancel, alive, last, n_init, n_exit, crashed,
                 hal, mock_busy_state, bw, it, fb, fbs>>

\* display_dual_without_gvl: the cancel check, then the red buffer.
worker_dual_red(d) ==
  /\ ~crashed
  /\ job[d].pc = "data2"
  /\ IF CancelOf(d) /= 0
     THEN /\ job' = [job EXCEPT ![d].result = EPD_ERR_TIMEOUT, ![d].pc = "done"]
          /\ trace' = [trace EXCEPT ![d] = Append(@, <<"rc", "data", EPD_ERR_TIMEOUT>>)]
     ELSE /\ job' = [job EXCEPT ![d].result = EPD_OK, ![d].pc = "post"]
          /\ trace' = [trace EXCEPT ![d] =
                         (@ \o (IF Cfg(d).display_cmd_2 /= 0
                                THEN <<Cmd(Cfg(d).display_cmd_2), Bulk(job[d].buf2)>>
                                ELSE <<>>))
                         \o << <<"rc", "data", EPD_OK>> >>]
  /\ UNCHANGED <<state, config, driver, cancel, alive, last, n_init, n_exit, crashed,
                 hal, mock_busy_state, bw, it, fb, fbs>>

\* Faulty variant of PostHook: the regional job runs post_display like the
\* full-screen one.
PostHook_full_only(kind, hk, result) ==
  CASE kind \in {"display", "clear", "display_region"} ->
         IF result = EPD_OK THEN hk.post_display ELSE NULL
    [] kind = "display_dual" -> hk.post_display

\* The hook the worker runs after the data-write, or NULL for none.
PostHook(kind, hk, result) ==
  CASE kind \in {"display", "clear"} ->
         IF result = EPD_OK THEN hk.post_display ELSE NULL
    [] kind = "display_region" ->
         IF result = EPD_OK
         THEN IF hk.post_display_region /= NULL THEN hk.post_display_region
              ELSE hk.post_display
         ELSE NULL
    [] kind = "display_dual" -> hk.post_display

worker_post(d) ==
  /\ ~crashed
  /\ job[d].pc = "post"
  /\ LET h == PostHook(job[d].kind, Hooks(d), job[d].result)
     IN  IF h /= NULL
         THEN LET r == StartHook(job[d], trace[d], h, "post", Cfg(d))
              IN  /\ job' = [job EXCEPT ![d] = r.j]
                  /\ trace' = [trace EXCEPT ![d] = r.tr]
         ELSE /\ job' = [job EXCEPT ![d].pc = "done"]
              /\ UNCHANGED trace
  /\ UNCHANGED <<state, config, driver, cancel, alive, last, n_init, n_exit, crashed,
                 hal, mock_busy_state, bw, it, fb, fbs>>


(* ------------------------------------------------------------------ *)
(* _epd_init: runs under the host lock, its busy-waits get no flag     *)
(* ------------------------------------------------------------------ *)

\* The init call returns: the tail of the custom_init (if any) after the interpreter.
InitFinish(j, tr, rc) ==
  LET t == CustomInitTail(j.hook, rc, j.mode)
  IN  [j |-> [j EXCEPT !.result = t.rc, !.pc = "done", !.rb = NoBusy], tr |-> tr \o t.out]

\* The interpreter ran to r (a return or a busy-wait) within the init job j.
InitAdvance(j, r, cfg) ==
  IF r.at = "busy"
  THEN [j |-> [j EXCEPT !.pc = "busy", !.pos = r.pos,
                        !.rb = ReadBusyEnter(cfg.busy_polarity, EPD_BUSY_TIMEOUT_MS, NULL)],
        tr |-> r.tr]
  ELSE InitFinish(j, r.tr, r.rc)

device_epd_init(d, mode) ==
  /\ Callable(d)
  /\ \/ RequireOpenRaises(d, "init")
     \/ /\ Opened(d)
        /\ LET j == [IdleJob EXCEPT !.kind = "init", !.hook = Hooks(d).custom_init,
                                    !.mode = mode]
               r == InitAdvance(j, epd_generic_init(Cfg(d), mode, <<>>), Cfg(d))
           IN  /\ job' = [job EXCEPT ![d] = r.j]
               /\ trace' = [trace EXCEPT ![d] = r.tr]
        /\ last' = [last EXCEPT ![d] = Called(d, "init", "running", EPD_OK)]
        /\ UNCHANGED <<state, config, driver, cancel, alive, n_init, n_exit, crashed,
                       hal, mock_busy_state, bw, it, fb, fbs>>

(* ------------------------------------------------------------------ *)
(* Busy-wait steps of the call in progress                             *)
(* ------------------------------------------------------------------ *)

\* The trace marker of one poll entry: "expired" (i reached timeout_ms),
\* "cancel" (the flag was seen set) or "go" (the pin is read next).
PollOutcome(rb, cancel_val) ==
  IF ~(rb.i < rb.timeout_ms) THEN "expired"
  ELSE IF ReadBusyPoll(rb, cancel_val).done THEN "cancel" ELSE "go"

\* epd_read_busy returned rc to the hook or to the interpreter of job j.
BusyReturn(j, tr, rc, cfg) ==
  IF j.kind = "init"
  THEN IF rc /= EPD_OK
       THEN InitFinish(j, tr, rc)
       ELSE InitAdvance(j, InterpRun(cfg, select_init_sequence(cfg, j.mode), j.pos, tr), cfg)
  ELSE IF HookAfterBusy(rc)
       THEN [j |-> AfterHook(j, rc), tr |-> Append(tr, <<"rc", j.stage, rc>>)]
       ELSE ContinueHook(j, tr, j.ip + 1, cfg)

busy_poll(d) ==
  /\ ~crashed
  /\ job[d].pc = "busy"
  /\ job[d].rb.phase = "poll"
  /\ LET r == ReadBusyPoll(job[d].rb, CancelOf(d))
         tr == Append(trace[d], <<"poll", PollOutcome(job[d].rb, CancelOf(d))>>)
     IN  IF r.done
         THEN LET b == BusyReturn(job[d], tr, r.rc, Cfg(d))
              IN  /\ job' = [job EXCEPT ![d] = b.j]
                  /\ trace' = [trace EXCEPT ![d] = b.tr]
         ELSE /\ job' = [job EXCEPT ![d].rb = r.rb]
              /\ trace' = [trace EXCEPT ![d] = tr]
  /\ UNCHANGED <<state, config, driver, cancel, alive, last, n_init, n_exit, crashed,
                 hal, mock_busy_state, bw, it, fb, fbs>>

busy_read(d, v) ==
  /\ ~crashed
  /\ job[d].pc = "busy"
  /\ job[d].rb.phase = "read"
  /\ PinRead(v)
  /\ LET r == ReadBusyRead(job[d].rb, v)
         tr == Append(trace[d], Read(v))
     IN  IF r.done
         THEN LET b == BusyReturn(job[d], tr, r.rc, Cfg(d))
              IN  /\ job' = [job EXCEPT ![d] = b.j]
                  /\ trace' = [trace EXCEPT ![d] = b.tr]
         ELSE /\ job' = [job EXCEPT ![d].rb = r.rb]
              /\ trace' = [trace EXCEPT ![d] = tr]
  /\ UNCHANGED <<state, config, driver, cancel, alive, last, n_init, n_exit, crashed, bw, it, fb, fbs>>

busy_delay(d) ==
  /\ ~crashed
  /\ job[d].pc = "busy"
  /\ job[d].rb.phase = "delay"
  /\ job' = [job EXCEPT ![d].rb = ReadBusyDelay(@)]
  /\ trace' = [trace EXCEPT ![d] = Append(@, Delay(1))]
  /\ UNCHANGED <<state, config, driver, cancel, alive, last, n_init, n_exit, crashed,
                 hal, mock_busy_state, bw, it, fb, fbs>>

(* ------------------------------------------------------------------ *)
(* Unblock function and the return to the caller                       *)
(* ------------------------------------------------------------------ *)

\* Job kinds that run through rb_thread_call_without_gvl.
OffLockKinds == {"display", "display_dual", "display_region", "clear"}

\* display_ubf, display_dual_ubf, display_region_ubf: args->dev->cancel = 1.
\* The marker records the first set of a job.
display_ubf(d) ==
  /\ ~crashed
  /\ job[d].kind \in OffLockKinds
  /\ cancel[d] = 0
  /\ cancel' = [cancel EXCEPT ![d] = 1]
  /\ trace' = [trace EXCEPT ![d] = Append(@, <<"ubf", 0>>)]
  /\ UNCHANGED <<state, config, driver, alive, job, last, n_init, n_exit, crashed,
                 hal, mock_busy_state, bw, it, fb, fbs>>

\* Faulty variant of Translate: every failure is raised as DeviceError.
Translate_all_device_error(kind, result) ==
  IF result = EPD_OK THEN "none" ELSE "DeviceError"

\* The exception the harness raises for the result of a job of this kind.
Translate(kind, result) ==
  IF result = EPD_OK THEN "none"
  ELSE IF result = EPD_ERR_TIMEOUT THEN "BusyTimeoutError"
  ELSE IF kind = "init" THEN "InitError" ELSE "DeviceError"

\* Faulty variant of Unwind: a failed job closes the device.
Unwind_autoclose(d) ==
  IF job[d].result /= EPD_OK /\ state[d] = DEVICE_OPEN
  THEN /\ n_exit' = [n_exit EXCEPT ![d] = @ + 1]
       /\ state' = [state EXCEPT ![d] = DEVICE_CLOSED]
  ELSE UNCHANGED <<n_exit, state>>

\* What the harness does to the device between the worker's return and its own
\* return or rb_raise: nothing.
Unwind(d) == UNCHANGED <<n_exit, state>>

job_return(d) ==
  /\ ~crashed
  /\ job[d].pc = "done"
  /\ last' = [last EXCEPT ![d].exc = Translate(job[d].kind, job[d].result),
                          ![d].result = job[d].result]
  /\ job' = [job EXCEPT ![d] = IdleJob]
  /\ Unwind(d)
  /\ UNCHANGED <<config, driver, cancel, alive, trace, n_init, crashed,
                 hal, mock_busy_state, bw, it, fb, fbs>>

\* What DEV_Module_Init may return under the linked HAL.
ModuleInitResults == IF hal = "mock" THEN {0} ELSE {0, 1}

Next ==
  \/ \E d \in Devices, name \in ModelNames \cup {UnknownName}, rc \in ModuleInitResults :
       device_initialize(d, name, rc)
  \/ \E d \in Devices : device_close(d)
  \/ \E d \in Devices : device_dfree(d)
  \/ \E d \in Devices : device_open_p(d)
  \/ \E d \in Devices : device_model_name(d)
  \/ \E d \in Devices : null_config_call(d)
  \/ \E d \in Devices, mode \in Modes : device_epd_init(d, mode)
  \/ \E d \in Devices, buf \in Bufs : device_epd_display(d, buf)
  \/ \E d \in Devices, black \in Bufs, red \in Bufs : device_epd_display_dual(d, black, red)
  \/ \E d \in Devices, buf \in Bufs, r \in Regions : device_epd_display_region(d, buf, r)
  \/ \E d \in Devices : device_epd_sleep(d)
  \/ \E d \in Devices : device_epd_clear(d)
  \/ \E d \in Devices : worker_pre(d)
  \/ \E d \in Devices, malloc_ok \in BOOLEAN : worker_data(d, malloc_ok)
  \/ \E d \in Devices : worker_dual_black(d)
  \/ \E d \in Devices : worker_dual_red(d)
  \/ \E d \in Devices : worker_post(d)
  \/ \E d \in Devices : busy_poll(d)
  \/ \E d \in Devices, v \in {0, 1} : busy_read(d, v)
  \/ \E d \in Devices : busy_delay(d)
  \/ \E d \in Devices : display_ubf(d)
  \/ \E d \in Devices : job_return(d)

Spec == Init /\ [][Next]_vars


(* ------------------------------------------------------------------ *)
(* epd_read_busy called directly (device.c), with a concurrent writer  *)
(* of the flag its cancel_flag argument points to                      *)
(* ------------------------------------------------------------------ *)

Polarities == {BUSY_ACTIVE_LOW, BUSY_ACTIVE_HIGH}

\* c: the value of the pointed-to flag when the call starts.
read_busy_call(polarity, timeout_ms, flag, c) ==
  /\ ~bw.running
  /\ flag = NULL => c = 0
  /\ bw' = [rb |-> ReadBusyEnter(polarity, timeout_ms, flag), running |-> TRUE,
            returned |-> FALSE, rc |-> EPD_OK, cancel |-> c, tr |-> <<>>]
  /\ UNCHANGED <<devvars, hal, mock_busy_state, it, fb, fbs>>

\* The call returns rc: the frame keeps the arguments, the phase becomes "off".
DirectReturn(b, rc, tr) ==
  [b EXCEPT !.rb.phase = "off", !.running = FALSE, !.returned = TRUE, !.rc = rc, !.tr = tr]

read_busy_poll ==
  /\ bw.running
  /\ bw.rb.phase = "poll"
  /\ LET r == ReadBusyPoll(bw.rb, bw.cancel)
         tr == Append(bw.tr, <<"poll", PollOutcome(bw.rb, bw.cancel)>>)
     IN  bw' = IF r.done THEN DirectReturn(bw, r.rc, tr)
               ELSE [bw EXCEPT !.rb = r.rb, !.tr = tr]
  /\ UNCHANGED <<devvars, hal, mock_busy_state, it, fb, fbs>>

read_busy_read(v) ==
  /\ bw.running
  /\ bw.rb.phase = "read"
  /\ PinRead(v)
  /\ LET r == ReadBusyRead(bw.rb, v)
         tr == Append(bw.tr, Read(v))
     IN  bw' = IF r.done THEN DirectReturn(bw, r.rc, tr)
               ELSE [bw EXCEPT !.rb = r.rb, !.tr = tr]
  /\ UNCHANGED <<devvars, it, fb, fbs>>

read_busy_delay ==
  /\ bw.running
  /\ bw.rb.phase = "delay"
  /\ bw' = [bw EXCEPT !.rb = ReadBusyDelay(@), !.tr = Append(@, Delay(1))]
  /\ UNCHANGED <<devvars, hal, mock_busy_state, it, fb, fbs>>

\* Another thread stores 1 in the flag the call was given.
read_busy_set_flag ==
  /\ bw.running
  /\ bw.rb.flag /= NULL
  /\ bw.cancel = 0
  /\ bw' = [bw EXCEPT !.cancel = 1, !.tr = Append(@, <<"ubf", 0>>)]
  /\ UNCHANGED <<devvars, hal, mock_busy_state, it, fb, fbs>>

NextBusy ==
  \/ \E polarity \in Polarities, timeout_ms \in 0..MaxTimeout, flag \in {NULL, "dev"},
        c \in {0, 1} : read_busy_call(polarity, timeout_ms, flag, c)
  \/ read_busy_poll
  \/ \E v \in {0, 1} : read_busy_read(v)
  \/ read_busy_delay
  \/ read_busy_set_flag

SpecBusy == Init /\ [][NextBusy]_vars


(* ------------------------------------------------------------------ *)
(* Reading a trace                                                     *)
(* ------------------------------------------------------------------ *)

\* The stages whose hook or data-write was called, in call order.
StagesCalled(tr) ==
  LET calls == SelectSeq(tr, LAMBDA e : e[1] = "call")
  IN  [k \in 1..Len(calls) |-> calls[k][2]]

\* The return codes recorded for a stage, in order.
StageRcs(tr, stage) ==
  LET rcs == SelectSeq(tr, LAMBDA e : e[1] = "rc" /\ e[2] = stage)
  IN  [k \in 1..Len(rcs) |-> rcs[k][3]]

InSeq(x, seq) == \E k \in 1..Len(seq) : seq[k] = x

IsPrefix(a, b) == Len(a) <= Len(b) /\ \A k \in 1..Len(a) : a[k] = b[k]

\* A stage was called and returned something other than Ok.
StageFailed(tr, stage) == \E k \in 1..Len(StageRcs(tr, stage)) : StageRcs(tr, stage)[k] /= EPD_OK

(* ------------------------------------------------------------------ *)
(* C1: step order of display, clear and display_region jobs            *)
(* ------------------------------------------------------------------ *)

SingleBufferKinds == {"display", "clear", "display_region"}

\* C1: in every display, clear and display_region job the steps run in the order
\* pre_display (when the driver defines it), data-write, post hook; a pre_display
\* that returns non-Ok ends the job with that result and neither the data-write nor
\* the post hook runs; the post hook runs only after a data-write that returned Ok;
\* a post hook that returns non-Ok makes its result the job's result.
C1_StepOrder ==
  \A d \in Devices :
    job[d].kind \in SingleBufferKinds =>
      LET tr == trace[d]
          st == StagesCalled(tr)
          withPre == Hooks(d).pre_display /= NULL
          order == (IF withPre THEN <<"pre">> ELSE <<>>) \o <<"data", "post">>
          finished == job[d].pc = "done"
      IN  /\ IsPrefix(st, order)
          /\ (withPre /\ job[d].pc /= "pre") => Len(st) >= 1
          /\ StageFailed(tr, "pre") =>
               /\ ~InSeq("data", st)
               /\ ~InSeq("post", st)
               /\ finished
               /\ job[d].result = StageRcs(tr, "pre")[1]
          /\ InSeq("post", st) => StageRcs(tr, "data") = <<EPD_OK>>
          /\ (finished /\ StageFailed(tr, "post")) => job[d].result = StageRcs(tr, "post")[1]

\* A display job whose pre_display timed out has ended with no data-write.
C1_Witness_PreFails ==
  \E d \in Devices :
    /\ job[d].kind = "display"
    /\ job[d].pc = "done"
    /\ StageFailed(trace[d], "pre")
    /\ job[d].result = EPD_ERR_TIMEOUT
    /\ ~InSeq("data", StagesCalled(trace[d]))


(* ------------------------------------------------------------------ *)
(* C2: the contract of epd_read_busy                                   *)
(* ------------------------------------------------------------------ *)

\* The pin values read, in order.
ReadValues(tr) ==
  LET reads == SelectSeq(tr, LAMBDA e : e[1] = "read")
  IN  [k \in 1..Len(reads) |-> reads[k][2]]

\* C2: epd_read_busy reads the BUSY pin at most timeout_ms times.  When its cancel
\* flag is never set it returns Ok exactly when one of its reads finds the pin
\* not-busy (LOW under ActiveHigh, HIGH under ActiveLow), returning at the first such
\* read, and returns TimeoutErr after exactly timeout_ms busy reads; with timeout_ms
\* = 0 it returns TimeoutErr without reading the pin.
C2_ReadBusyContract ==
  LET reads == ReadValues(bw.tr)
      n == Len(reads)
      t == bw.rb.timeout_ms
      idle(v) == IF bw.rb.polarity = BUSY_ACTIVE_HIGH THEN v = 0 ELSE v = 1
      neverSet == bw.rb.flag = NULL \/ bw.cancel = 0
  IN  /\ n <= t
      /\ bw.returned =>
           /\ bw.rc \in {EPD_OK, EPD_ERR_TIMEOUT}
           /\ t = 0 => (bw.rc = EPD_ERR_TIMEOUT /\ n = 0)
           /\ neverSet =>
                /\ bw.rc = EPD_OK <=> \E k \in 1..n : idle(reads[k])
                /\ bw.rc = EPD_OK => (idle(reads[n]) /\ \A k \in 1..(n - 1) : ~idle(reads[k]))
                /\ bw.rc = EPD_ERR_TIMEOUT => n = t

\* An ActiveLow call whose flag was never set returned Ok at its second read.
C2_Witness_OkAtSecondRead ==
  /\ bw.returned
  /\ bw.rb.flag /= NULL
  /\ bw.cancel = 0
  /\ bw.rb.polarity = BUSY_ACTIVE_LOW
  /\ bw.rc = EPD_OK
  /\ ReadValues(bw.tr) = <<0, 1>>


(* ------------------------------------------------------------------ *)
(* C3: cancellation promptness                                         *)
(* ------------------------------------------------------------------ *)

HasUbf(tr) == \E k \in 1..Len(tr) : tr[k][1] = "ubf"

\* The events recorded after the unblock function set the flag.
AfterUbf(tr) ==
  LET k == CHOOSE i \in 1..Len(tr) : tr[i][1] = "ubf"
  IN  SubSeq(tr, k + 1, Len(tr))

CountIf(seq, Test(_)) == Cardinality({i \in 1..Len(seq) : Test(seq[i])})

\* Every pin read comes right after a poll entry that checked the flag and went on
\* (a flag store in between is not an event of the busy-wait).
ReadsFollowPoll(tr) ==
  \A k \in 1..Len(tr) :
    tr[k][1] = "read" =>
      \E p \in 1..(k - 1) :
        /\ tr[p][1] = "poll" /\ tr[p][2] = "go"
        /\ \A m \in (p + 1)..(k - 1) : tr[m][1] = "ubf"

\* C3: once the unblock function has set the cancel flag of a running job, the
\* busy-wait returns TimeoutErr at its next poll entry (also when the pin stays busy
\* for ever): no pin read happens after the poll entry that follows the set, at most
\* one pin read and one further 1 ms delay happen before it, and the job ends with
\* TimeoutErr.  The flag is checked before every pin read.
C3_CancelPromptness ==
  \A d \in Devices :
    /\ ReadsFollowPoll(trace[d])
    /\ (job[d].kind \in OffLockKinds /\ HasUbf(trace[d])) =>
         LET after == AfterUbf(trace[d])
             polls == {i \in 1..Len(after) : after[i][1] = "poll"}
         IN  /\ Cardinality(polls) <= 1
             /\ \A i \in polls :
                  /\ after[i][2] /= "go"
                  /\ \A m \in (i + 1)..Len(after) : after[m][1] \notin {"read", "delay"}
                  /\ job[d].pc = "done"
                  /\ job[d].result = EPD_ERR_TIMEOUT
             /\ CountIf(after, LAMBDA e : e[1] = "read") <= 1
             /\ CountIf(after, LAMBDA e : e[1] = "delay" /\ e[2] = 1) <= 1

\* The flag was set between a poll entry and its pin read, the pin was busy, and
\* after one more delay the next poll entry ended the display job with TimeoutErr.
C3_Witness_LateSet ==
  \E d \in Devices :
    /\ job[d].kind = "display"
    /\ job[d].pc = "done"
    /\ job[d].result = EPD_ERR_TIMEOUT
    /\ HasUbf(trace[d])
    /\ LET after == AfterUbf(trace[d])
       IN  /\ Len(after) = 4
           /\ after[1][1] = "read"
           /\ after[2] = Delay(1)
           /\ after[3] = <<"poll", "cancel">>
           /\ after[4][1] = "rc"
    /\ \A k \in 1..Len(trace[d]) :
         trace[d][k][1] = "read" => trace[d][k][2] = AfterUbf(trace[d])[1][2]


(* ------------------------------------------------------------------ *)
(* C4: a busy-wait timeout ends the hook                               *)
(* ------------------------------------------------------------------ *)

\* A poll entry at which epd_read_busy returned TimeoutErr.
IsTimeoutPoll(e) == e[1] = "poll" /\ e[2] /= "go"

\* The power-on busy-wait of acep_post_display was the one that was cancelled:
\* a cancelled poll entry follows send_command(0x04) with no command in between.
PowerOnCancelled(tr) ==
  \E c \in 1..Len(tr), p \in 1..Len(tr) :
    /\ c < p
    /\ IsCmd(tr[c], 4)
    /\ tr[p][1] = "poll" /\ tr[p][2] = "cancel"
    /\ \A m \in (c + 1)..(p - 1) : tr[m][1] /= "cmd"

AcepModels == {"epd_4in01f", "epd_5in65f"}

\* C4: when a busy-wait inside a hook returns TimeoutErr the hook returns at once
\* and the job emits no further command, data or pin read.  For the ACeP
\* post_display hook, a cancel seen by the power-on busy-wait ends the job with
\* TimeoutErr, raised as BusyTimeoutError, and the trace holds send_command(0x04)
\* but neither 0x12 nor 0x02.
C4_TimeoutEndsHook ==
  \A d \in Devices :
    LET tr == trace[d]
    IN  /\ \A p \in 1..Len(tr) :
             IsTimeoutPoll(tr[p]) =>
               /\ \A m \in (p + 1)..Len(tr) : tr[m][1] \in {"rc", "ubf"}
               /\ job[d].kind \in OffLockKinds =>
                    /\ p < Len(tr)
                    /\ tr[p + 1] = <<"rc", job[d].stage, EPD_ERR_TIMEOUT>>
                    /\ job[d].pc = "done"
                    /\ job[d].result = EPD_ERR_TIMEOUT
        /\ (/\ config[d] \in AcepModels
            /\ last[d].op \in OffLockKinds
            /\ PowerOnCancelled(tr)) =>
              /\ HasCmd(tr, 4)
              /\ ~HasCmd(tr, 18)
              /\ ~HasCmd(tr, 2)
              /\ last[d].exc \in {"running", "BusyTimeoutError"}
              /\ job[d].kind = "none" => last[d].exc = "BusyTimeoutError"

\* A display on an ACeP panel raised BusyTimeoutError after its power-on busy-wait
\* was cancelled.
C4_Witness_AcepCancelled ==
  \E d \in Devices :
    /\ config[d] \in AcepModels
    /\ last[d].op = "display"
    /\ last[d].exc = "BusyTimeoutError"
    /\ PowerOnCancelled(trace[d])
    /\ HasCmd(trace[d], 4)


(* ------------------------------------------------------------------ *)
(* Two Devices in one process                                          *)
(* ------------------------------------------------------------------ *)

InitTwo ==
  /\ InitDevices({"d1", "d2"})
  /\ hal \in {"mock", "any"}
  /\ mock_busy_state = 0
  /\ bw = NoDirectCall
  /\ it = NoInterp
  /\ fb = NoFb
  /\ fbs = NoPair

\* The model and the buffer the two Devices are driven with.
TwoModel == "epd_2in13"
TwoBuf == <<0, 165>>

\* Each Device is opened once; then display and display_dual jobs run on both,
\* their workers interleaved, each with its own unblock function.
NextTwo ==
  \/ \E d \in Devices : state[d] = DEVICE_CLOSED /\ device_initialize(d, TwoModel, 0)
  \/ \E d \in Devices : state[d] = DEVICE_OPEN /\ device_epd_display(d, TwoBuf)
  \/ \E d \in Devices : state[d] = DEVICE_OPEN /\ device_epd_display_dual(d, TwoBuf, TwoBuf)
  \/ \E d \in Devices : worker_pre(d)
  \/ \E d \in Devices : worker_data(d, TRUE)
  \/ \E d \in Devices : worker_dual_black(d)
  \/ \E d \in Devices : worker_dual_red(d)
  \/ \E d \in Devices : worker_post(d)
  \/ \E d \in Devices : busy_poll(d)
  \/ \E d \in Devices, v \in {0, 1} : busy_read(d, v)
  \/ \E d \in Devices : busy_delay(d)
  \/ \E d \in Devices : display_ubf(d)
  \/ \E d \in Devices : job_return(d)

SpecTwo == InitTwo /\ [][NextTwo]_vars

(* ------------------------------------------------------------------ *)
(* C5: the cancel flag is per Device                                   *)
(* ------------------------------------------------------------------ *)

\* The job in progress on d was ended by a cancel: a cancelled poll entry, or the
\* cancel check between the two buffers of display_dual.
EndedByCancel(d) ==
  \/ \E k \in 1..Len(trace[d]) : trace[d][k][1] = "poll" /\ trace[d][k][2] = "cancel"
  \/ /\ job[d].kind = "display_dual"
     /\ \E k \in 1..Len(trace[d]) : trace[d][k] = <<"rc", "data", EPD_ERR_TIMEOUT>>

C6_FlagWriters ==
  \A d \in Devices :
    cancel'[d] /= cancel[d] =>
      \/ /\ cancel'[d] = 1
         /\ job[d].kind \in OffLockKinds
         /\ job'[d] = job[d]
         /\ trace'[d] = Append(trace[d], <<"ubf", 0>>)
      \/ /\ cancel'[d] = 0
         /\ job[d].kind = "none"
         /\ job'[d].kind \in OffLockKinds
         /\ job'[d].pc = "pre"

\* While a job is in progress its flag is set exactly when its own unblock function
\* ran (so the worker starts with 0), and a job entered with the flag still set by
\* the job before is not ended by that cancel.
C6_FreshFlag ==
  \A d \in Devices :
    job[d].kind \in OffLockKinds =>
      /\ cancel[d] /= 0 <=> HasUbf(trace[d])
      /\ cancel[d] \in {0, 1}
      /\ (last[d].before.cancel /= 0 /\ ~HasUbf(trace[d])) => ~EndedByCancel(d)

\* C6: the cancel flag is set to 1 only by the unblock function and reset to 0 only
\* at job entry (display, display_dual, display_region, clear); every worker starts
\* with cancel = 0; a cancel delivered during one job never makes the next job
\* return TimeoutErr.
C6_CancelLifecycle == []C6_FreshFlag /\ [][C6_FlagWriters]_vars

\* A display entered with the flag still set by the job before polled the pin and
\* ended Ok.
C6_Witness_NextJobOk ==
  \E d \in Devices :
    /\ job[d].kind = "display"
    /\ job[d].pc = "done"
    /\ job[d].result = EPD_OK
    /\ last[d].before.cancel = 1
    /\ cancel[d] = 0
    /\ Len(ReadValues(trace[d])) >= 1


(* ------------------------------------------------------------------ *)
(* C7: lifecycle                                                       *)
(* ------------------------------------------------------------------ *)

\* C7: a new Device is Closed; initialize(name) moves it to Open only when the name
\* is in the registry and module_init returned 0; an unknown name raises
\* ModelNotFoundError without calling module_init and leaves the device Closed; a
\* nonzero module_init raises InitError and leaves the device Closed; close and
\* destruction move Open to Closed; no other operation changes the state.
C7_Lifecycle ==
  \A d \in Devices :
    /\ last[d].op = "none" => state[d] = DEVICE_CLOSED
    /\ last[d].op = "initialize" =>
         /\ (last[d].before.state = DEVICE_CLOSED /\ state[d] = DEVICE_OPEN) =>
              /\ last[d].exc = "none"
              /\ config[d] \in ModelNames
              /\ trace[d] = << <<"module_init", 0>> >>
         /\ last[d].exc = "ModelNotFoundError" =>
              (trace[d] = <<>> /\ state[d] = DEVICE_CLOSED)
         /\ last[d].exc = "InitError" =>
              (trace[d][1][2] /= 0 /\ state[d] = DEVICE_CLOSED)
         /\ last[d].exc \in {"none", "ModelNotFoundError", "InitError"}
    /\ last[d].op \in {"close", "dfree"} => state[d] = DEVICE_CLOSED
    /\ last[d].op \notin {"none", "initialize", "close", "dfree"} =>
         state[d] = last[d].before.state

(* ------------------------------------------------------------------ *)
(* C8: hardware calls on a Closed device                               *)
(* ------------------------------------------------------------------ *)

HardwareOps == {"init", "display", "display_dual", "display_region", "sleep", "clear"}

\* C8: init, display, display_dual, display_region, sleep and clear called on a
\* Closed device (never opened, or closed) raise DeviceError, perform no HAL call
\* (no GPIO write, SPI write, pin read or delay) and do not touch the cancel flag:
\* the call leaves the Device as it found it.
C8_ClosedRaises ==
  \A d \in Devices :
    (last[d].op \in HardwareOps /\ last[d].before.state = DEVICE_CLOSED) =>
      /\ last[d].exc = "DeviceError"
      /\ trace[d] = <<>>
      /\ cancel[d] = last[d].before.cancel
      /\ job[d].kind = "none"
      /\ Snap(d) = last[d].before

\* A display on a closed Device raised DeviceError and left the flag, still set by
\* a cancelled job, as it was.
C8_Witness_FlagKept ==
  \E d \in Devices :
    /\ last[d].op = "display"
    /\ last[d].before.state = DEVICE_CLOSED
    /\ last[d].exc = "DeviceError"
    /\ n_exit[d] >= 1
    /\ cancel[d] = 1

(* ------------------------------------------------------------------ *)
(* C9: close is idempotent, module_exit balances module_init           *)
(* ------------------------------------------------------------------ *)

\* C9: close on a Closed device makes no HAL call and changes nothing (so close;
\* close leaves the state close leaves); module_exit is called exactly once for each
\* Open-to-Closed transition; the number of module_exit calls never exceeds the
\* number of successful module_init calls and equals it once the device is closed
\* or destroyed.
C9_ExitBalancesInit ==
  \A d \in Devices :
    /\ (last[d].op = "close" /\ last[d].before.state = DEVICE_CLOSED) =>
         (trace[d] = <<>> /\ Snap(d) = last[d].before)
    /\ (last[d].op \in {"close", "dfree"} /\ last[d].before.state = DEVICE_OPEN) =>
         /\ trace[d] = << <<"module_exit", 0>> >>
         /\ n_exit[d] = last[d].before.n_exit + 1
         /\ state[d] = DEVICE_CLOSED
    /\ n_exit[d] <= n_init[d]
    /\ (state[d] = DEVICE_CLOSED \/ ~alive[d]) => n_exit[d] = n_init[d]

(* ------------------------------------------------------------------ *)
(* C10: a failed call leaves the device as it was                      *)
(* ------------------------------------------------------------------ *)

Errors == {"BusyTimeoutError", "InitError", "DeviceError"}

\* C10: after init, display, display_dual, display_region or clear fails with any
\* error (BusyTimeoutError, InitError, DeviceError) the device is in the state it
\* was in: a device that was Open is still Open with the same config and driver,
\* module_exit has not been called, and the same call may be made again.
C10_ErrorKeepsState ==
  \A d \in Devices :
    (last[d].op \in HardwareOps \ {"sleep"} /\ last[d].exc \in Errors) =>
      /\ state[d] = last[d].before.state
      /\ config[d] = last[d].before.config
      /\ driver[d] = last[d].before.driver
      /\ n_exit[d] = last[d].before.n_exit
      /\ n_init[d] = last[d].before.n_init
      /\ last[d].before.state = DEVICE_OPEN =>
           (state[d] = DEVICE_OPEN /\ Callable(d) /\ Opened(d))

\* A display on an Open device raised BusyTimeoutError and the device is still Open.
C10_Witness_StillOpen ==
  \E d \in Devices :
    /\ last[d].op = "display"
    /\ last[d].exc = "BusyTimeoutError"
    /\ last[d].before.state = DEVICE_OPEN
    /\ state[d] = DEVICE_OPEN
    /\ job[d].kind = "none"


(* ------------------------------------------------------------------ *)
(* C11: result translation                                             *)
(* ------------------------------------------------------------------ *)

\* The numeric results a worker or an init can store.
Results == {EPD_OK, EPD_ERR_TIMEOUT, EPD_ERR_INIT, EPD_ERR_PARAM, EPD_ERR_ALLOC}

\* What the claim has the caller see for a result: "none" is a nil return.
SeenByCaller(op, r) ==
  IF r = EPD_OK THEN "none"
  ELSE IF r = EPD_ERR_TIMEOUT THEN "BusyTimeoutError"
  ELSE IF op = "init" THEN "InitError"
  ELSE "DeviceError"

\* C11: for display, display_dual, display_region and clear a worker result Ok
\* returns nil, TimeoutErr raises BusyTimeoutError, AllocErr and any other nonzero
\* result raise DeviceError; for init TimeoutErr raises BusyTimeoutError and any
\* other nonzero result raises InitError.  While the worker runs nothing is raised:
\* it only stores a numeric result, which the harness translates on return.
C11_ResultTranslation ==
  /\ \A op \in OffLockKinds \cup {"init"}, r \in Results :
       Translate(op, r) = SeenByCaller(op, r)
  /\ \A d \in Devices :
       /\ job[d].kind /= "none" =>
            (last[d].exc = "running" /\ last[d].op = job[d].kind /\ job[d].result \in Results)
       /\ (/\ job[d].kind = "none"
           /\ last[d].op \in OffLockKinds \cup {"init"}
           /\ last[d].before.state = DEVICE_OPEN) =>
            last[d].exc = SeenByCaller(last[d].op, last[d].result)

\* A display whose worker stored AllocErr raised DeviceError.
C11_Witness_AllocRaised ==
  \E d \in Devices :
    /\ job[d].kind = "none"
    /\ last[d].op = "display"
    /\ last[d].result = EPD_ERR_ALLOC
    /\ last[d].exc = "DeviceError"

(* ------------------------------------------------------------------ *)
(* epd_generic_init called directly (driver_registry.c) on a config    *)
(* whose Full init sequence is any byte string; one action per         *)
(* iteration of its while loop and per step of its busy-waits          *)
(* ------------------------------------------------------------------ *)

\* The bytes the sequences are made of: opcodes and counts 0..2, an unassigned
\* sentinel (0xF0) and three of the assigned ones.
SeqBytes == {0, 1, 2, 240, SEQ_DELAY_MS, SEQ_END, SEQ_WAIT_BUSY}

InitSeqs == UNION {[1..n -> SeqBytes] : n \in 0..MaxSeqLen}

\* The config passed, but for its init sequence: a model of the polarity
\* (BUSY_ACTIVE_LOW) with which the mock HAL's first pin read is idle.
InterpModels == {"epd_1in64g"}

\* The send_command and send_data calls of a trace, in order.
BusEvents(tr) == SelectSeq(tr, LAMBDA e : e[1] \in {"cmd", "data"})

\* The config of a model with seq as its Full init sequence.
InterpConfig(model, seq) == [ModelConfig(model) EXCEPT !.init_sequence = seq]

ItCfg == InterpConfig(it.model, it.seq)

\* Faulty variant of InterpEnter: pos is a static local, it keeps its value from
\* the call before.
InterpEnter_static_pos(model, seq, run, tr1, rc1) ==
  LET s == select_init_sequence(InterpConfig(model, seq), EPD_MODE_FULL)
      empty == s = <<>>
  IN  [model |-> model, seq |-> seq, pos |-> it.pos, running |-> ~empty,
       returned |-> empty, rc |-> IF empty THEN EPD_ERR_PARAM ELSE EPD_OK,
       rb |-> NoBusy, ps |-> <<>>, tr |-> <<>>, run |-> run, tr1 |-> tr1, rc1 |-> rc1]

\* The entry of epd_generic_init(cfg, EPD_MODE_FULL): pos = 0 and the null /
\* empty check.
InterpEnter(model, seq, run, tr1, rc1) ==
  LET s == select_init_sequence(InterpConfig(model, seq), EPD_MODE_FULL)
      empty == s = <<>>
  IN  [model |-> model, seq |-> seq, pos |-> 0, running |-> ~empty, returned |-> empty,
       rc |-> IF empty THEN EPD_ERR_PARAM ELSE EPD_OK, rb |-> NoBusy, ps |-> <<>>,
       tr |-> <<>>, run |-> run, tr1 |-> tr1, rc1 |-> rc1]

InterpReturn(i, rc) == [i EXCEPT !.running = FALSE, !.returned = TRUE, !.rc = rc]

\* The first call on the config.
generic_init_call ==
  /\ it.run = 0
  /\ \E model \in InterpModels, seq \in InitSeqs : it' = InterpEnter(model, seq, 1, <<>>, EPD_OK)
  /\ UNCHANGED <<devvars, hal, mock_busy_state, bw, fb, fbs>>

\* The same config is initialized a second time, after the first call returned.
generic_init_again ==
  /\ it.returned
  /\ it.run = 1
  /\ it' = InterpEnter(it.model, it.seq, 2, BusEvents(it.tr), it.rc)
  /\ UNCHANGED <<devvars, hal, mock_busy_state, bw, fb, fbs>>

\* while (pos < seq_len) { ... } return EPD_OK;  -- the loop test and one iteration.
generic_init_step ==
  /\ it.running
  /\ it.rb.phase = "off"
  /\ IF ~(it.pos < Len(it.seq))
     THEN it' = InterpReturn(it, EPD_OK)
     ELSE LET s == InterpStep(ItCfg, it.seq, it.pos)
              i1 == [it EXCEPT !.pos = s.pos, !.ps = Append(@, it.pos), !.tr = @ \o s.out]
          IN  it' = CASE s.act = "cont" -> i1
                      [] s.act = "busy" ->
                           [i1 EXCEPT !.rb = ReadBusyEnter(ItCfg.busy_polarity,
                                                           EPD_BUSY_TIMEOUT_MS, NULL)]
                      [] s.act = "ret" -> InterpReturn(i1, s.rc)
  /\ UNCHANGED <<devvars, hal, mock_busy_state, bw, fb, fbs>>

\* Faulty variant of InterpAfterBusy: the result of the busy-wait is dropped.
InterpAfterBusy_goes_on(i, r, tr) == [i EXCEPT !.rb = r.rb, !.tr = tr]

\* rc = epd_read_busy(...); if (rc != EPD_OK) return rc;
InterpAfterBusy(i, r, tr) ==
  IF ~r.done THEN [i EXCEPT !.rb = r.rb, !.tr = tr]
  ELSE IF r.rc /= EPD_OK THEN InterpReturn([i EXCEPT !.rb = r.rb, !.tr = tr], r.rc)
  ELSE [i EXCEPT !.rb = r.rb, !.tr = tr]

generic_init_poll ==
  /\ it.running
  /\ it.rb.phase = "poll"
  /\ it' = InterpAfterBusy(it, ReadBusyPoll(it.rb, 0), it.tr)
  /\ UNCHANGED <<devvars, hal, mock_busy_state, bw, fb, fbs>>

generic_init_read(v) ==
  /\ it.running
  /\ it.rb.phase = "read"
  /\ PinRead(v)
  /\ it' = InterpAfterBusy(it, ReadBusyRead(it.rb, v), Append(it.tr, Read(v)))
  /\ UNCHANGED <<devvars, bw, fb, fbs>>

generic_init_delay ==
  /\ it.running
  /\ it.rb.phase = "delay"
  /\ it' = [it EXCEPT !.rb = ReadBusyDelay(@), !.tr = Append(@, Delay(1))]
  /\ UNCHANGED <<devvars, hal, mock_busy_state, bw, fb, fbs>>

NextInterp ==
  \/ generic_init_call
  \/ generic_init_again
  \/ generic_init_step
  \/ generic_init_poll
  \/ \E v \in {0, 1} : generic_init_read(v)
  \/ generic_init_delay

SpecInterp == Init /\ [][NextInterp]_vars

\* One call, on a thread that keeps running until the call returns.
NextInterpOnce ==
  \/ generic_init_call
  \/ generic_init_step
  \/ generic_init_poll
  \/ \E v \in {0, 1} : generic_init_read(v)
  \/ generic_init_delay

SpecInterpFair ==
  /\ Init
  /\ [][NextInterpOnce]_vars
  /\ WF_vars(generic_init_step)
  /\ WF_vars(generic_init_poll)
  /\ WF_vars(\E v \in {0, 1} : generic_init_read(v))
  /\ WF_vars(generic_init_delay)

(* ------------------------------------------------------------------ *)
(* Claims about the init-sequence interpreter                          *)
(* ------------------------------------------------------------------ *)

\* The interpreter is about to run a loop iteration on the byte at it.pos.
AtOpcode == it.running /\ it.rb.phase = "off" /\ it.pos < Len(it.seq)

\* The byte at the 0-based position p of the sequence being interpreted.
SeqAt(p) == it.seq[p + 1]

\* The opcode at it.pos starts a regular record that the stream holds in full.
AtFullRecord ==
  /\ AtOpcode
  /\ SeqAt(it.pos) < 240
  /\ it.pos + 1 < Len(it.seq)
  /\ it.pos + 2 + SeqAt(it.pos + 1) <= Len(it.seq)

\* C12: a loop iteration that starts on a byte b < 0xF0 whose record is in the
\* stream in full sends command b, then the n bytes after the count byte n as
\* data, in stream order and whatever their value, and nothing else; the next
\* iteration reads its opcode right after the n-th payload byte.
C12_RegularRecord ==
  [][AtFullRecord =>
       LET b == SeqAt(it.pos)
           n == SeqAt(it.pos + 1)
       IN  /\ it'.tr = it.tr \o <<Cmd(b)>> \o [k \in 1..n |-> Data(SeqAt(it.pos + 1 + k))]
           /\ it'.pos = it.pos + 2 + n
           /\ it'.running /\ it'.rb.phase = "off"
           /\ it'.ps = Append(it.ps, it.pos)]_vars

\* Sentinel values in payload position went out as data, in order.
C12_Witness_SentinelPayload ==
  /\ it.returned
  /\ it.seq = <<1, 2, SEQ_END, SEQ_WAIT_BUSY>>
  /\ it.tr = <<Cmd(1), Data(SEQ_END), Data(SEQ_WAIT_BUSY)>>
  /\ it.rc = EPD_OK

\* How the records of a byte string lie in it from the 0-based position p, by the
\* format alone: "whole" (records up to the end of the stream), "end" (an END
\* sentinel in opcode position), "cut" (a record the stream ends in the middle of).
RECURSIVE Layout(_, _)
Layout(seq, p) ==
  IF p >= Len(seq) THEN "whole"
  ELSE LET b == seq[p + 1]
       IN  IF b = SEQ_END THEN "end"
           ELSE IF b = SEQ_DELAY_MS
                THEN IF p + 1 >= Len(seq) THEN "cut" ELSE Layout(seq, p + 2)
           ELSE IF b >= 240 THEN Layout(seq, p + 1)
           ELSE IF p + 1 >= Len(seq) THEN "cut"
           ELSE IF p + 2 + seq[p + 2] > Len(seq) THEN "cut"
           ELSE Layout(seq, p + 2 + seq[p + 2])

\* C13: a call on an init sequence with no END sentinel and no truncated record,
\* whatever its length, whose busy-waits all succeeded, has returned Ok with the
\* read position at the end of the stream.
C13_EndOfStreamOk ==
  (it.returned /\ Layout(it.seq, 0) = "whole" /\ it.rc /= EPD_ERR_TIMEOUT)
    => (it.rc = EPD_OK /\ it.pos = Len(it.seq))

\* C14: the read position is never beyond the length of the sequence (every byte
\* read is at an index below it), and a call on a sequence that the stream ends
\* in the middle of a record of -- a regular opcode with no count byte, a payload
\* short of its count, a DELAY_MS with no delay byte -- has returned ParamErr,
\* unless a busy-wait before that record timed out.
C14_TruncationParamErr ==
  /\ it.pos <= Len(it.seq)
  /\ \A k \in 1..Len(it.ps) : it.ps[k] < Len(it.seq)
  /\ (it.returned /\ Layout(it.seq, 0) = "cut" /\ it.rc /= EPD_ERR_TIMEOUT)
       => it.rc = EPD_ERR_PARAM

\* A payload one byte short: the command and the byte that is there went out.
C14_Witness_ShortPayload ==
  /\ it.returned
  /\ it.seq = <<1, 2, 0>>
  /\ it.tr = <<Cmd(1), Data(0)>>
  /\ it.pos = 3
  /\ it.rc = EPD_ERR_PARAM

\* The positions the loop iterations of the call started at, then the position
\* the call is at.
Positions == Append(it.ps, it.pos)

\* What holds of a call of the interpreter in every state.
C15_Linear ==
  /\ \A k \in 1..Len(it.ps) : it.ps[k] < Positions[k + 1]
  /\ \A k \in 1..(Len(it.ps) - 1) : SeqAt(it.ps[k]) /= SEQ_END
  /\ it.rb.i <= it.rb.timeout_ms
  /\ it.rb.phase \in {"read", "delay"} => it.rb.i < it.rb.timeout_ms
  /\ (it.returned /\ Layout(it.seq, 0) = "end" /\ it.rc /= EPD_ERR_TIMEOUT)
       => /\ it.rc = EPD_OK
          /\ it.ps /= <<>>
          /\ SeqAt(it.ps[Len(it.ps)]) = SEQ_END
          /\ it.pos = it.ps[Len(it.ps)] + 1

\* Within a call the read position does not move backward, and a call that has
\* returned reads and emits nothing more.
C15_Forward ==
  /\ (it.running /\ it'.seq = it.seq /\ it'.run = it.run) => it'.pos >= it.pos
  /\ (it.returned /\ it'.run = it.run) => it' = it

\* C15: the interpreter terminates on every init sequence: every call returns;
\* each loop iteration starts beyond the one before it and the read position
\* never moves backward; a busy-wait polls the pin at most timeout times; the
\* call stops at the first END sentinel in opcode position with Ok, its read
\* position just after that END, and nothing is read or emitted after it.
C15_Terminates ==
  /\ []C15_Linear
  /\ [][C15_Forward]_vars
  /\ (it.running ~> it.returned)

\* A call stopped at an END that bytes follow, after a busy-wait that took the
\* whole timeout but one poll.
C15_Witness_StoppedAtEnd ==
  /\ it.returned
  /\ it.seq = <<SEQ_WAIT_BUSY, SEQ_END, 1, 0>>
  /\ it.rc = EPD_OK
  /\ it.pos = 2
  /\ BusEvents(it.tr) = <<>>
  /\ Len(SelectSeq(it.tr, LAMBDA e : e[1] = "read")) = EPD_BUSY_TIMEOUT_MS

\* C16: when the Full init sequence of a config is interpreted a second time and
\* no busy-wait of either run timed out, the second run makes the send_command
\* and send_data calls of the first, in the same order, and returns what the
\* first returned; on the way it has made the first of them.  This holds for the
\* mock HAL, whose toggle is where the first run left it, as for any other.
C16_Idempotent ==
  (it.run = 2 /\ it.rc1 /= EPD_ERR_TIMEOUT /\ it.rc /= EPD_ERR_TIMEOUT)
    => /\ IsPrefix(BusEvents(it.tr), it.tr1)
       /\ it.returned => (BusEvents(it.tr) = it.tr1 /\ it.rc = it.rc1)

\* Under the mock HAL the second run's busy-wait took two pin reads where the
\* first took one, and the commands and data were the same.
C16_Witness_MockSecondRun ==
  /\ hal = "mock"
  /\ it.run = 2
  /\ it.returned
  /\ it.rc = EPD_OK
  /\ it.seq = <<1, 1, 2, SEQ_WAIT_BUSY>>
  /\ it.tr1 = <<Cmd(1), Data(2)>>
  /\ it.tr = <<Cmd(1), Data(2), Read(0), Delay(1), Read(1)>>

(* ------------------------------------------------------------------ *)
(* Claims about the generic data-write                                 *)
(* ------------------------------------------------------------------ *)

\* The events a trace holds between the call of its data-write and the return
\* of it (all the events after the call while it has not returned).
DataWrite(tr) ==
  LET calls == {k \in 1..Len(tr) : tr[k][1] = "call" /\ tr[k][2] = "data"}
      rets == {k \in 1..Len(tr) : tr[k][1] = "rc" /\ tr[k][2] = "data"}
      from == CHOOSE k \in calls : TRUE
      to == IF rets = {} THEN Len(tr) + 1 ELSE CHOOSE k \in rets : TRUE
  IN  IF calls = {} THEN <<>> ELSE SubSeq(tr, from + 1, to - 1)

\* What generic_display is to emit for a config and a buffer that is there.
GenericDisplayEvents(cfg, buf) ==
  IF cfg.display_cmd_2 /= 0
  THEN <<Cmd(cfg.display_cmd), Bulk(buf), Cmd(cfg.display_cmd_2)>>
  ELSE <<Cmd(cfg.display_cmd), Bulk(buf)>>

\* C17: generic_display on a null or zero-length buffer returns ParamErr and
\* emits nothing; on any other buffer it emits send_command(display_cmd), the
\* buffer in one send_data_bulk, then send_command(display_cmd_2) without data
\* exactly when display_cmd_2 is not 0, returns Ok and emits nothing else.  So
\* does the data-write of every display job whose driver has no custom_display.
C17_GenericDisplay ==
  /\ \A name \in ModelNames, buf \in Bufs :
       LET r == epd_generic_display(ModelConfig(name), buf)
       IN  IF buf = <<>>
           THEN r.rc = EPD_ERR_PARAM /\ r.out = <<>>
           ELSE r.rc = EPD_OK /\ r.out = GenericDisplayEvents(ModelConfig(name), buf)
  /\ \A d \in Devices :
       (/\ job[d].kind = "display"
        /\ Hooks(d).custom_display = NULL
        /\ StageRcs(trace[d], "data") /= <<>>)
         => IF job[d].buf = <<>>
            THEN /\ StageRcs(trace[d], "data") = <<EPD_ERR_PARAM>>
                 /\ DataWrite(trace[d]) = <<>>
            ELSE /\ StageRcs(trace[d], "data") = <<EPD_OK>>
                 /\ DataWrite(trace[d]) = GenericDisplayEvents(Cfg(d), job[d].buf)

\* A display on a two-command model without custom_display: the second command
\* went out with no data after it.
C17_Witness_SecondCommandBare ==
  \E d \in Devices :
    /\ job[d].kind = "display"
    /\ config[d] = "epd_5in83_v2"
    /\ DataWrite(trace[d]) = <<Cmd(16), Bulk(<<0, 165>>), Cmd(19)>>
    /\ StageRcs(trace[d], "data") = <<EPD_OK>>

(* ------------------------------------------------------------------ *)
(* Framebuffer (framebuffer.c).  Bytes are 0..255; the C operators on  *)
(* them are computed bit by bit.                                       *)
(* ------------------------------------------------------------------ *)

\* a & b, a | b on bytes.
RECURSIVE BitAnd(_, _)
BitAnd(a, b) ==
  IF a = 0 \/ b = 0 THEN 0
  ELSE (a % 2) * (b % 2) + 2 * BitAnd(a \div 2, b \div 2)

RECURSIVE BitOr(_, _)
BitOr(a, b) ==
  IF a = 0 THEN b
  ELSE IF b = 0 THEN a
  ELSE (IF (a % 2) + (b % 2) > 0 THEN 1 ELSE 0) + 2 * BitOr(a \div 2, b \div 2)

\* (uint8_t)~a, a >> n, a << n (an int, not truncated).
BitNot(a) == 255 - a
Shr(a, n) == a \div (2 ^ n)
Shl(a, n) == a * (2 ^ n)

PixelFormats == {PIXEL_FORMAT_MONO, PIXEL_FORMAT_GRAY4, PIXEL_FORMAT_COLOR4, PIXEL_FORMAT_COLOR7}

\* Faulty variant of calc_width_byte: the row size is rounded down.
calc_width_byte_floor(width, fmt) ==
  CASE fmt = PIXEL_FORMAT_MONO -> (width \div 8) % 65536
    [] fmt = PIXEL_FORMAT_GRAY4 -> (width \div 4) % 65536
    [] fmt \in {PIXEL_FORMAT_COLOR4, PIXEL_FORMAT_COLOR7} -> (width \div 2) % 65536
    [] OTHER -> 0

calc_width_byte(width, fmt) ==
  CASE fmt = PIXEL_FORMAT_MONO -> ((width + 7) \div 8) % 65536
    [] fmt = PIXEL_FORMAT_GRAY4 -> ((width + 3) \div 4) % 65536
    [] fmt \in {PIXEL_FORMAT_COLOR4, PIXEL_FORMAT_COLOR7} -> ((width + 1) \div 2) % 65536
    [] OTHER -> 0

\* The fields fb_initialize computes from valid arguments (w, h ints in range,
\* format one of the four symbols), without the buffer.
FbHeader(w, h, fmt) ==
  LET width == w % 65536
      height == h % 65536
      width_byte == calc_width_byte(width, fmt)
  IN  [width |-> width, height |-> height, pixel_format |-> fmt,
       width_byte |-> width_byte, buffer_size |-> width_byte * height]

\* fb_initialize on the object fb_alloc made: [exc, o].  A format that is none of
\* the four symbols makes cw_sym_to_pixel_format raise.
fb_initialize(w, h, fmt) ==
  IF w <= 0 \/ w > EPD_MAX_DIMENSION THEN [exc |-> "ArgumentError", o |-> fb_alloc]
  ELSE IF h <= 0 \/ h > EPD_MAX_DIMENSION THEN [exc |-> "ArgumentError", o |-> fb_alloc]
  ELSE IF fmt \notin PixelFormats
       THEN [exc |-> "ArgumentError",
             o |-> [fb_alloc EXCEPT !.width = w % 65536, !.height = h % 65536]]
  ELSE LET hd == FbHeader(w, h, fmt)
       IN  [exc |-> "none",
            o |-> [buffer |-> [k \in 1..hd.buffer_size |->
                                 IF fmt = PIXEL_FORMAT_MONO THEN 255 ELSE 0],
                   width |-> hd.width, height |-> hd.height, pixel_format |-> fmt,
                   width_byte |-> hd.width_byte, buffer_size |-> hd.buffer_size]]

\* if (x < 0 || x >= fb->width || y < 0 || y >= fb->height)
FbOutOfBounds(o, x, y) == x < 0 \/ x >= o.width \/ y < 0 \/ y >= o.height

\* Pixels per byte of a format.
FbPerByte(fmt) ==
  CASE fmt = PIXEL_FORMAT_MONO -> 8
    [] fmt = PIXEL_FORMAT_GRAY4 -> 4
    [] OTHER -> 2

\* addr = (size_t)(x / n) + (size_t)y * fb->width_byte
FbAddr(o, x, y) == (x \div FbPerByte(o.pixel_format)) + y * o.width_byte

\* Faulty variant of SetPixelByte: the byte is not read, the other pixels of it
\* are stored as 0.
SetPixelByte_alone(fmt, rdata, x, rb_color) ==
  LET color == rb_color % 256
  IN  CASE fmt = PIXEL_FORMAT_MONO -> IF color = 0 THEN 0 ELSE Shr(128, x % 8)
        [] fmt = PIXEL_FORMAT_GRAY4 -> Shr(Shl(BitAnd(color, 3), 6), (x % 4) * 2) % 256
        [] OTHER -> Shr(Shl(BitAnd(color, 15), 4), (x % 2) * 4) % 256

\* The byte fb_set_pixel stores at the address of pixel x, from the byte rdata
\* that is there and the colour argument.
SetPixelByte(fmt, rdata, x, rb_color) ==
  LET color == rb_color % 256
  IN  CASE fmt = PIXEL_FORMAT_MONO ->
             IF color = 0 THEN BitAnd(rdata, BitNot(Shr(128, x % 8)))
             ELSE BitOr(rdata, Shr(128, x % 8))
        [] fmt = PIXEL_FORMAT_GRAY4 ->
             LET c2 == BitAnd(color, 3)
                 r2 == BitAnd(rdata, BitNot(Shr(192, (x % 4) * 2)))
             IN  BitOr(r2, Shr(Shl(c2, 6), (x % 4) * 2) % 256)
        [] OTHER ->
             LET c4 == BitAnd(color, 15)
                 r4 == BitAnd(rdata, BitNot(Shr(240, (x % 2) * 4)))
             IN  BitOr(r4, Shr(Shl(c4, 4), (x % 2) * 4) % 256)

\* Faulty variant of GetPixelBits: the pixels of a byte are read from its low end.
GetPixelBits_low_first(fmt, rdata, x) ==
  CASE fmt = PIXEL_FORMAT_MONO -> BitAnd(Shr(rdata, x % 8), 1)
    [] fmt = PIXEL_FORMAT_GRAY4 -> BitAnd(Shr(rdata, (x % 4) * 2), 3)
    [] OTHER -> BitAnd(Shr(rdata, (x % 2) * 4), 15)

\* The colour fb_get_pixel reads for pixel x from the byte at its address.
GetPixelBits(fmt, rdata, x) ==
  CASE fmt = PIXEL_FORMAT_MONO -> BitAnd(Shr(rdata, 7 - (x % 8)), 1)
    [] fmt = PIXEL_FORMAT_GRAY4 -> BitAnd(Shr(rdata, 6 - (x % 4) * 2), 3)
    [] OTHER -> BitAnd(Shr(rdata, 4 - (x % 2) * 4), 15)

\* The fill byte of fb_clear.
ClearFill(fmt, rb_color) ==
  LET c == rb_color % 256
  IN  CASE fmt = PIXEL_FORMAT_MONO -> IF c = 0 THEN 0 ELSE 255
        [] fmt = PIXEL_FORMAT_GRAY4 ->
             LET c2 == BitAnd(c, 3)
             IN  BitOr(BitOr(Shl(c2, 6), Shl(c2, 4)), BitOr(Shl(c2, 2), c2)) % 256
        [] fmt \in {PIXEL_FORMAT_COLOR4, PIXEL_FORMAT_COLOR7} ->
             LET c4 == BitAnd(c, 15)
             IN  BitOr(Shl(c4, 4), c4) % 256
        [] OTHER -> 0

\* What fb_get_pixel returns on an object whose buffer holds the address.
GetPixel(o, x, y) ==
  IF FbOutOfBounds(o, x, y) THEN Qnil
  ELSE GetPixelBits(o.pixel_format, o.buffer[FbAddr(o, x, y) + 1], x)

\* The arguments Framebuffer.new is called with: per format two rows of one
\* byte and one pixel; the largest width; dimensions out of range; a format that
\* is none of the four.
FbArgs ==
  {<<FbPerByte(fmt) + 1, 2, fmt>> : fmt \in PixelFormats}
  \cup {<<EPD_MAX_DIMENSION, 1, PIXEL_FORMAT_MONO>>}
  \cup {<<w, 1, PIXEL_FORMAT_MONO>> : w \in {0 - 1, 0, EPD_MAX_DIMENSION + 1}}
  \cup {<<1, h, PIXEL_FORMAT_MONO>> : h \in {0 - 1, 0, EPD_MAX_DIMENSION + 1}}
  \cup {<<1, 1, 0>>}

\* The largest colour of a format.
MaxColor(fmt) ==
  CASE fmt = PIXEL_FORMAT_MONO -> 1
    [] fmt = PIXEL_FORMAT_GRAY4 -> 3
    [] OTHER -> 15

\* Every colour of the object's format, and the colours the calls pass.
AllColors(o) == 0..MaxColor(o.pixel_format)
Colors(o) == {0, 1, MaxColor(o.pixel_format)}

\* The coordinates passed: the pixels of the first bytes of each row and the last
\* pixel of each row, and one coordinate beyond each edge.
FbInside(o) ==
  ((0..Min(o.width - 1, FbPerByte(o.pixel_format))) \cup {o.width - 1})
    \X (0..(o.height - 1))

FbCoords(o) ==
  FbInside(o) \cup {<<0 - 1, 0>>, <<o.width, 0>>, <<0, 0 - 1>>, <<0, o.height>>}

FbCall(op, x, y, c, exc, ret, addr) ==
  [op |-> op, x |-> x, y |-> y, c |-> c, exc |-> exc, ret |-> ret, addr |-> addr]

\* Framebuffer.new(w, h, fmt): fb_alloc, then fb_initialize; when it raises there
\* is no object.
Framebuffer_new(w, h, fmt) ==
  /\ fb.last.op = "none" \/ fb.last.exc /= "none"
  /\ LET r == fb_initialize(w, h, fmt)
     IN  fb' = [fb EXCEPT !.o = IF r.exc = "none" THEN r.o ELSE fb_alloc,
                          !.last = FbCall("new", w, h, fmt, r.exc, Qnil, 0)]
  /\ UNCHANGED <<devvars, hal, mock_busy_state, bw, it, fbs>>

\* The Framebuffer that Framebuffer.new returned.
FbLive == fb.last.op /= "none" /\ fb.last.exc = "none" /\ ~fb.ub

\* The object after fb_set_pixel(x, y, c), when the buffer holds the address.
SetPixel(o, x, y, c) ==
  IF FbOutOfBounds(o, x, y) THEN o
  ELSE [o EXCEPT !.buffer[FbAddr(o, x, y) + 1] = SetPixelByte(o.pixel_format, @, x, c)]

\* A byte at or beyond buffer_size is accessed: the pixel is inside and the
\* address is not.
FbOverrun(o, x, y) == ~FbOutOfBounds(o, x, y) /\ FbAddr(o, x, y) >= o.buffer_size

fb_set_pixel(x, y, c) ==
  /\ FbLive
  /\ fb.sets < MaxSets
  /\ LET o == fb.o
         addr == IF FbOutOfBounds(o, x, y) THEN 0 ELSE FbAddr(o, x, y)
     IN  fb' = [fb EXCEPT !.o = IF FbOverrun(o, x, y) THEN o ELSE SetPixel(o, x, y, c),
                          !.last = FbCall("set_pixel", x, y, c, "none", Qnil, addr),
                          !.sets = @ + 1,
                          !.ub = FbOverrun(o, x, y)]
  /\ UNCHANGED <<devvars, hal, mock_busy_state, bw, it, fbs>>

fb_get_pixel(x, y) ==
  /\ FbLive
  /\ LET o == fb.o
         addr == IF FbOutOfBounds(o, x, y) THEN 0 ELSE FbAddr(o, x, y)
     IN  IF FbOverrun(o, x, y)
         THEN \E v \in AllColors(o) :
                fb' = [fb EXCEPT !.last = FbCall("get_pixel", x, y, 0, "none", v, addr),
                                 !.ub = TRUE]
         ELSE fb' = [fb EXCEPT !.last = FbCall("get_pixel", x, y, 0, "none",
                                               GetPixel(o, x, y), addr)]
  /\ UNCHANGED <<devvars, hal, mock_busy_state, bw, it, fbs>>

\* The object after fb_clear(c): memset(fb->buffer, fill, fb->buffer_size).
Clear(o, c) ==
  [o EXCEPT !.buffer = [k \in 1..o.buffer_size |-> ClearFill(o.pixel_format, c)]]

fb_clear(c) ==
  /\ FbLive
  /\ fb' = [fb EXCEPT !.o = Clear(fb.o, c),
                      !.last = FbCall("clear", 0, 0, c, "none", Qnil, 0)]
  /\ UNCHANGED <<devvars, hal, mock_busy_state, bw, it, fbs>>

\* fb_initialize_copy(copy, orig) on a new object: what copy holds afterwards.
fb_initialize_copy(copy, orig) ==
  [copy EXCEPT !.width = orig.width, !.height = orig.height,
               !.pixel_format = orig.pixel_format, !.width_byte = orig.width_byte,
               !.buffer_size = orig.buffer_size,
               !.buffer = IF orig.buffer /= <<>> /\ orig.buffer_size > 0
                          THEN [k \in 1..orig.buffer_size |-> orig.buffer[k]]
                          ELSE <<>>]

\* fb.dup: the program goes on with the copy.
fb_dup ==
  /\ FbLive
  /\ fb.last.op /= "copy"
  /\ fb' = [fb EXCEPT !.o = fb_initialize_copy(fb_alloc, fb.o),
                      !.last = FbCall("copy", 0, 0, 0, "none", Qnil, 0)]
  /\ UNCHANGED <<devvars, hal, mock_busy_state, bw, it, fbs>>

NextFb ==
  \/ \E a \in FbArgs : Framebuffer_new(a[1], a[2], a[3])
  \/ \E p \in FbCoords(fb.o), c \in Colors(fb.o) : fb_set_pixel(p[1], p[2], c)
  \/ \E p \in FbCoords(fb.o) : fb_get_pixel(p[1], p[2])
  \/ \E c \in Colors(fb.o) : fb_clear(c)
  \/ fb_dup

SpecFb == Init /\ [][NextFb]_vars

(* ------------------------------------------------------------------ *)
(* Claims about the Framebuffer                                        *)
(* ------------------------------------------------------------------ *)

\* (x, y) is a pixel of the object.
InBounds(o, x, y) == 0 <= x /\ x < o.width /\ 0 <= y /\ y < o.height

\* In every state a call has left a Framebuffer in (the calls that read it
\* leave it as it was): whatever pixel is set next to whatever colour of the
\* format, it reads back as that colour; whatever colour the buffer is cleared
\* to next, every pixel reads back as it; and the latest call, if it was such a
\* set_pixel or a clear, has left the buffer so.
C18_ReadsBack ==
  FbLive =>
    /\ fb.last.op /= "get_pixel" =>
         \A c \in AllColors(fb.o) :
           LET cleared == Clear(fb.o, c)
           IN  \A p \in FbInside(fb.o) :
                 /\ GetPixel(SetPixel(fb.o, p[1], p[2], c), p[1], p[2]) = c
                 /\ GetPixel(cleared, p[1], p[2]) = c
    /\ (fb.last.op = "set_pixel" /\ InBounds(fb.o, fb.last.x, fb.last.y))
         => GetPixel(fb.o, fb.last.x, fb.last.y) = fb.last.c
    /\ fb.last.op = "clear"
         => \A p \in FbInside(fb.o) : GetPixel(fb.o, p[1], p[2]) = fb.last.c

\* A get_pixel call that follows a set_pixel of the same pixel, or a clear,
\* returns the colour that call was given.
C18_GetAfter ==
  (FbLive /\ fb'.last.op = "get_pixel" /\ InBounds(fb.o, fb'.last.x, fb'.last.y))
    => /\ (fb.last.op = "set_pixel" /\ fb.last.x = fb'.last.x /\ fb.last.y = fb'.last.y)
            => fb'.last.ret = fb.last.c
       /\ fb.last.op = "clear" => fb'.last.ret = fb.last.c

\* C18: for every format and size, every pixel (x, y) of the buffer and every
\* colour c of the format (0..1 Mono, 0..3 Gray4, 0..15 Color4 and Color7),
\* set_pixel(x, y, c) followed by get_pixel(x, y) returns c, and clear(c)
\* followed by get_pixel of any pixel returns c.
C18_RoundTrip == []C18_ReadsBack /\ [][C18_GetAfter]_vars

\* The last pixel of the second row of a Color7 buffer was set to 15 and read.
C18_Witness_ReadBack ==
  /\ fb.o.pixel_format = PIXEL_FORMAT_COLOR7
  /\ fb.last.op = "get_pixel"
  /\ fb.last.x = 2 /\ fb.last.y = 1
  /\ fb.last.ret = 15
  /\ fb.o.buffer = <<0, 0, 0, 240>>

\* The pixel positions of one byte of the object's format.
Slots(o) == 0..(FbPerByte(o.pixel_format) - 1)

\* Object b differs from object a in nothing but the pixel (x, y) of a: the
\* fields, every other byte, and every other pixel position of the byte of
\* (x, y) are the same.
OnlyPixelChanged(a, b, x, y) ==
  LET at == (x \div FbPerByte(a.pixel_format)) + y * a.width_byte + 1
  IN  /\ [b EXCEPT !.buffer = <<>>] = [a EXCEPT !.buffer = <<>>]
      /\ [b.buffer EXCEPT ![at] = 0] = [a.buffer EXCEPT ![at] = 0]
      /\ \A s \in Slots(a) :
           s /= x % FbPerByte(a.pixel_format)
             => GetPixelBits(a.pixel_format, b.buffer[at], s)
                  = GetPixelBits(a.pixel_format, a.buffer[at], s)

\* In every state a call has left a Framebuffer in: a set_pixel of a pixel of
\* it, to any colour, would change that pixel alone; a set_pixel beyond an edge
\* would change nothing, and get_pixel there returns nil.
C19_PixelAlone ==
  (FbLive /\ fb.last.op /= "get_pixel") =>
    \A p \in FbCoords(fb.o) :
      IF InBounds(fb.o, p[1], p[2])
      THEN \A c \in AllColors(fb.o) :
             OnlyPixelChanged(fb.o, SetPixel(fb.o, p[1], p[2], c), p[1], p[2])
      ELSE /\ \A c \in AllColors(fb.o) : SetPixel(fb.o, p[1], p[2], c) = fb.o
           /\ GetPixel(fb.o, p[1], p[2]) = Qnil

\* What a set_pixel call and a get_pixel call did.
C19_Calls ==
  /\ (FbLive /\ fb'.last.op = "set_pixel" /\ fb'.sets = fb.sets + 1)
       => IF InBounds(fb.o, fb'.last.x, fb'.last.y)
          THEN OnlyPixelChanged(fb.o, fb'.o, fb'.last.x, fb'.last.y)
          ELSE fb'.o = fb.o
  /\ (FbLive /\ fb'.last.op = "get_pixel" /\ ~InBounds(fb.o, fb'.last.x, fb'.last.y))
       => fb'.last.ret = Qnil /\ fb'.o = fb.o

\* C19: in all four formats set_pixel changes the addressed pixel and no other
\* pixel or byte; set_pixel at a coordinate out of bounds (negative, x >= width
\* or y >= height) leaves the whole buffer unchanged and get_pixel there returns
\* none.
C19_OnlyAddressedPixel == []C19_PixelAlone /\ [][C19_Calls]_vars

\* A Gray4 pixel was set in a byte whose other pixels the clear before had
\* made 3, and they still are.
C19_Witness_NeighboursKept ==
  /\ fb.o.pixel_format = PIXEL_FORMAT_GRAY4
  /\ fb.last.op = "set_pixel"
  /\ fb.last.x = 1 /\ fb.last.y = 0 /\ fb.last.c = 0
  /\ fb.o.buffer = <<207, 255, 255, 255>>

\* Bits per pixel of a format.
FbBpp(fmt) ==
  CASE fmt = PIXEL_FORMAT_MONO -> 1
    [] fmt = PIXEL_FORMAT_GRAY4 -> 2
    [] OTHER -> 4

\* ceil(w * bpp / 8) * h
StrideSize(w, h, fmt) == ((w * FbBpp(fmt) + 7) \div 8) * h

\* C20, the states: Framebuffer.new with a width or height outside 1..4096
\* raises and leaves no buffer, and the Framebuffer a call has returned or left
\* behind (new, set_pixel, get_pixel, clear, dup) has width and height in 1..4096,
\* buffer_size == ceil(width*bpp/8) * height, a buffer of that many bytes, and
\* the byte address of every one of its pixels below buffer_size; no call has
\* accessed a byte outside the buffer.  Right after construction the same holds
\* of the header of every width 1..4096 at the largest height.
C20_Stride ==
  /\ ~fb.ub
  /\ fb.last.op = "new" =>
       LET inRange == /\ 1 <= fb.last.x /\ fb.last.x <= EPD_MAX_DIMENSION
                      /\ 1 <= fb.last.y /\ fb.last.y <= EPD_MAX_DIMENSION
       IN  /\ fb.last.exc = "none" => inRange
           /\ ~inRange => /\ fb.last.exc = "ArgumentError"
                          /\ fb.o.buffer = <<>>
                          /\ fb.o.buffer_size = 0
  /\ fb.last.op /= "none" /\ fb.last.exc = "none" =>
       LET o == fb.o
       IN  /\ o.buffer_size = StrideSize(o.width, o.height, o.pixel_format)
           /\ Len(o.buffer) = o.buffer_size
           /\ 1 <= o.width /\ o.width <= EPD_MAX_DIMENSION
           /\ 1 <= o.height /\ o.height <= EPD_MAX_DIMENSION
           /\ \A x \in 0..(o.width - 1), y \in 0..(o.height - 1) :
                FbAddr(o, x, y) < o.buffer_size
           /\ fb.last.op = "new" =>
                \A w \in 1..EPD_MAX_DIMENSION :
                  LET hd == FbHeader(w, EPD_MAX_DIMENSION, o.pixel_format)
                  IN  /\ hd.buffer_size = StrideSize(w, EPD_MAX_DIMENSION, o.pixel_format)
                      /\ FbAddr(hd, w - 1, EPD_MAX_DIMENSION - 1) < hd.buffer_size

\* C20, the calls: a set_pixel or get_pixel with coordinates inside the
\* Framebuffer computes an address below buffer_size, and set_pixel, get_pixel,
\* clear and dup leave width, height, format, width_byte and buffer_size as they
\* were.
C20_Calls ==
  fb'.last.op \in {"set_pixel", "get_pixel", "clear", "copy"} =>
    /\ fb'.o.width = fb.o.width /\ fb'.o.height = fb.o.height
    /\ fb'.o.pixel_format = fb.o.pixel_format
    /\ fb'.o.width_byte = fb.o.width_byte
    /\ fb'.o.buffer_size = fb.o.buffer_size
    /\ fb'.last.op \in {"set_pixel", "get_pixel"}
         /\ InBounds(fb.o, fb'.last.x, fb'.last.y) =>
         /\ fb'.last.addr = FbAddr(fb.o, fb'.last.x, fb'.last.y)
         /\ fb'.last.addr < fb.o.buffer_size

\* C20: byte-stride invariant.  A Framebuffer is constructed only for
\* 1 <= width, height <= 4096, other values being rejected without a buffer; in
\* every reachable state, after any sequence of set_pixel, clear and copy,
\* buffer_size == ceil(width*bpp/8) * height (bpp 1 for Mono, 2 for Gray4, 4 for
\* Color4 and Color7), and every byte address set_pixel and get_pixel compute
\* for coordinates inside the Framebuffer is below buffer_size.
C20_ByteStride == []C20_Stride /\ [][C20_Calls]_vars

\* C20's case: the copy of the 4096 x 1 Mono Framebuffer whose last pixel was
\* set to 0: 512 bytes, the pixel in the last of them.
C20_Witness_WidestCopy ==
  /\ fb.last.op = "copy"
  /\ fb.o.width = EPD_MAX_DIMENSION /\ fb.o.height = 1
  /\ fb.o.buffer_size = 512 /\ Len(fb.o.buffer) = 512
  /\ fb.o.buffer[512] = 254

(* ------------------------------------------------------------------ *)
(* Two Framebuffers: ==, dup                                           *)
(* ------------------------------------------------------------------ *)

\* The framebuffer_t h with the bytes its buffer points at.
ObjAt(heap, h) == [h EXCEPT !.buffer = IF h.buffer = 0 THEN <<>> ELSE heap[h.buffer]]

\* xmalloc and the writes that fill the new block: the heap with the block
\* appended; the block's address is the heap's new length.
Xmalloc(heap, bytes) == Append(heap, bytes)

\* memcmp(a, b, n) != 0
MemDiffers(a, b, n) == \E k \in 1..n : a[k] /= b[k]

\* Faulty variant of fb_eq: the pixel formats are not compared.
fb_eq_any_format(heap, fb_a, fb_b) ==
  IF fb_a.width /= fb_b.width \/ fb_a.height /= fb_b.height THEN FALSE
  ELSE IF MemDiffers(ObjAt(heap, fb_a).buffer, ObjAt(heap, fb_b).buffer, fb_a.buffer_size)
       THEN FALSE
  ELSE TRUE

\* fb_eq(self, other) for two Framebuffers.
fb_eq(heap, fb_a, fb_b) ==
  IF \/ fb_a.width /= fb_b.width
     \/ fb_a.height /= fb_b.height
     \/ fb_a.pixel_format /= fb_b.pixel_format
  THEN FALSE
  ELSE IF MemDiffers(ObjAt(heap, fb_a).buffer, ObjAt(heap, fb_b).buffer, fb_a.buffer_size)
       THEN FALSE
  ELSE TRUE

\* Faulty variant of CopyBuffer: the copy points at the original's buffer.
CopyBuffer_shared(heap, fb_orig) == [heap |-> heap, buffer |-> fb_orig.buffer]

\* The buffer part of fb_initialize_copy: a new block with the original's
\* bytes, or NULL.
CopyBuffer(heap, fb_orig) ==
  IF fb_orig.buffer /= 0 /\ fb_orig.buffer_size > 0
  THEN [heap |-> Xmalloc(heap, [k \in 1..fb_orig.buffer_size |-> heap[fb_orig.buffer][k]]),
        buffer |-> Len(heap) + 1]
  ELSE [heap |-> heap, buffer |-> 0]

\* The shapes the two Framebuffers are made with.
PairArgs == {<<FbPerByte(fmt) + 1, 2, fmt>> : fmt \in PixelFormats} \cup {<<1, 1, PIXEL_FORMAT_MONO>>}

PairCall(op, on, ret) == [op |-> op, on |-> on, ret |-> ret]

\* which = "a" or "b": Framebuffer.new(w, h, fmt) with valid arguments.
pair_new(which, w, h, fmt) ==
  /\ which \notin fbs.made
  /\ which = "b" => "a" \in fbs.made
  /\ LET r == fb_initialize(w, h, fmt)
         heap == Xmalloc(fbs.heap, r.o.buffer)
         h2 == [r.o EXCEPT !.buffer = Len(heap)]
     IN  /\ r.exc = "none"
         /\ fbs' = [fbs EXCEPT !.heap = heap, ![which] = h2, !.made = @ \cup {which},
                               !.last = PairCall("new", which, FALSE)]
  /\ UNCHANGED <<devvars, hal, mock_busy_state, bw, it, fb>>

\* b = a.dup: fb_alloc, then fb_initialize_copy(b, a).
pair_dup ==
  /\ fbs.made = {"a"}
  /\ LET cb == CopyBuffer(fbs.heap, fbs.a)
         hd == fb_initialize_copy(fb_alloc, ObjAt(fbs.heap, fbs.a))
     IN  fbs' = [fbs EXCEPT !.heap = cb.heap, !.b = [hd EXCEPT !.buffer = cb.buffer],
                            !.made = {"a", "b"}, !.last = PairCall("dup", "b", FALSE)]
  /\ UNCHANGED <<devvars, hal, mock_busy_state, bw, it, fb>>

\* which.set_pixel(x, y, c)
pair_set_pixel(which, x, y, c) ==
  /\ fbs.made = {"a", "b"}
  /\ fbs.sets < MaxSets
  /\ LET h == fbs[which]
         o == ObjAt(fbs.heap, h)
     IN  /\ ~FbOverrun(o, x, y)
         /\ fbs' = [fbs EXCEPT !.heap[h.buffer] = SetPixel(o, x, y, c).buffer,
                               !.sets = @ + 1,
                               !.last = PairCall("set_pixel", which, FALSE)]
  /\ UNCHANGED <<devvars, hal, mock_busy_state, bw, it, fb>>

\* which.clear(c)
pair_clear(which, c) ==
  /\ which \in fbs.made
  /\ LET h == fbs[which]
         o == ObjAt(fbs.heap, h)
     IN  /\ Clear(o, c).buffer /= o.buffer \/ fbs.last.op /= "clear"
         /\ fbs' = [fbs EXCEPT !.heap[h.buffer] = Clear(o, c).buffer,
                               !.last = PairCall("clear", which, FALSE)]
  /\ UNCHANGED <<devvars, hal, mock_busy_state, bw, it, fb>>

\* which == the other one
pair_eq(which) ==
  /\ fbs.made = {"a", "b"}
  /\ LET other == IF which = "a" THEN "b" ELSE "a"
     IN  fbs' = [fbs EXCEPT !.last = PairCall("eq", which,
                                              fb_eq(fbs.heap, fbs[which], fbs[other]))]
  /\ UNCHANGED <<devvars, hal, mock_busy_state, bw, it, fb>>

\* a == an object that is no Framebuffer: rb_typeddata_is_kind_of fails.
pair_eq_foreign ==
  /\ "a" \in fbs.made
  /\ fbs' = [fbs EXCEPT !.last = PairCall("eq_foreign", "a", FALSE)]
  /\ UNCHANGED <<devvars, hal, mock_busy_state, bw, it, fb>>

NextPair ==
  \/ \E which \in {"a", "b"}, a \in PairArgs : pair_new(which, a[1], a[2], a[3])
  \/ pair_dup
  \/ \E which \in {"a", "b"} :
       \E p \in FbInside(fbs[which]), c \in Colors(fbs[which]) :
         pair_set_pixel(which, p[1], p[2], c)
  \/ \E which \in {"a", "b"} : pair_eq(which)
  \/ pair_eq_foreign

SpecPair == Init /\ [][NextPair]_vars

\* The two Framebuffers with clear among their operations.
NextPairClear ==
  \/ NextPair
  \/ \E which \in fbs.made : \E c \in Colors(fbs[which]) : pair_clear(which, c)

SpecPairClear == Init /\ [][NextPairClear]_vars

(* ------------------------------------------------------------------ *)
(* Claims about two Framebuffers                                       *)
(* ------------------------------------------------------------------ *)

PairA == ObjAt(fbs.heap, fbs.a)
PairB == ObjAt(fbs.heap, fbs.b)

\* Same width, height and pixel_format, and byte-identical buffers.
SameFramebuffer(p, q) ==
  /\ p.width = q.width /\ p.height = q.height /\ p.pixel_format = q.pixel_format
  /\ p.buffer = q.buffer

\* The pixels of o, row by row.
Pixels(o) == [y \in 0..(o.height - 1) |-> [x \in 0..(o.width - 1) |-> GetPixel(o, x, y)]]

\* C21, the states: == has returned true exactly when the two Framebuffers
\* have the same width, height and pixel_format and byte-identical buffers,
\* whichever of the two was the receiver; and b = a.dup has left b with a's
\* fields and bytes, in a buffer of its own.
C21_EqValue ==
  /\ fbs.last.op = "eq" => (fbs.last.ret <=> SameFramebuffer(PairA, PairB))
  /\ fbs.last.op = "dup" =>
       /\ SameFramebuffer(PairA, PairB)
       /\ PairB.buffer_size = PairA.buffer_size /\ PairB.width_byte = PairA.width_byte
       /\ fbs.b.buffer /= fbs.a.buffer

\* C21, the steps: a set_pixel on one Framebuffer leaves the other as it was
\* (so a copy is unchanged when its original is modified); when the two were
\* the same before it and it changed the colour of a pixel they are no longer
\* the same; and == on a copy and its original, either way round, returns true.
C21_Steps ==
  /\ fbs'.last.op = "set_pixel" =>
       LET other == IF fbs'.last.on = "a" THEN "b" ELSE "a"
           before == ObjAt(fbs.heap, fbs[fbs'.last.on])
           after == ObjAt(fbs'.heap, fbs'[fbs'.last.on])
       IN  /\ ObjAt(fbs'.heap, fbs'[other]) = ObjAt(fbs.heap, fbs[other])
           /\ SameFramebuffer(PairA, PairB) /\ Pixels(after) /= Pixels(before) =>
                ~SameFramebuffer(PairA', PairB')
  /\ fbs.last.op = "dup" /\ fbs'.last.op = "eq" => fbs'.last.ret

\* C21: Framebuffer equality holds exactly when width, height and pixel_format
\* are equal and the buffers are byte-identical: two of the same shape and
\* content compare equal, changing one pixel of one of them to another colour
\* makes them unequal, and a copy compares equal to its original and stays as it
\* is when the original is modified afterwards.
C21_Equality == []C21_EqValue /\ [][C21_Steps]_vars

\* C21's case: b = a.dup of the 3 x 2 Color4 Framebuffer, then pixel (2, 1) of a
\* set to 15; a == b is false and b is still all 0.
C21_Witness_CopyKept ==
  /\ fbs.last.op = "eq" /\ fbs.last.on = "a" /\ ~fbs.last.ret
  /\ fbs.a.pixel_format = PIXEL_FORMAT_COLOR4 /\ fbs.a.width = 3
  /\ fbs.b.buffer /= fbs.a.buffer
  /\ PairA.buffer = <<0, 0, 0, 240>>
  /\ PairB.buffer = <<0, 0, 0, 0>>
  /\ Len(fbs.heap) = 2

(* ------------------------------------------------------------------ *)
(* Claims about Device clear, init and the model-specific displays     *)
(* ------------------------------------------------------------------ *)

\* The byte a cleared buffer is filled with: Mono 0xFF, Gray4 0xFF, Color4 and
\* Color7 0x11.
WhiteByte(fmt) ==
  CASE fmt = PIXEL_FORMAT_MONO -> 255
    [] fmt = PIXEL_FORMAT_GRAY4 -> 255
    [] OTHER -> 17

\* ceil(width*bpp/8) * height bytes of the fill byte.
WhiteBuffer(cfg) ==
  [k \in 1..StrideSize(cfg.width, cfg.height, cfg.pixel_format) |-> WhiteByte(cfg.pixel_format)]

\* Widths around the byte boundaries of every format, and the largest.
StrideWidths == (1..17) \cup {EPD_MAX_DIMENSION - 1, EPD_MAX_DIMENSION}

\* C22, the states of a clear job: its buffer has ceil(width*bpp/8)*height
\* bytes, as many as a Framebuffer of the config's width, height and format,
\* each the format's fill byte (and the two row sizes and fill bytes agree for
\* every format, for widths around the byte boundaries and the largest); its
\* data-write is the one display makes for that buffer, custom_display if the
\* driver defines it and generic_display otherwise; post_display has run exactly
\* when the data-write returned Ok and the driver defines it; the result is
\* translated as display's is.
C22_ClearJob ==
  \A d \in Devices :
    /\ job[d].kind = "clear" =>
         LET cfg == Cfg(d)
             tr == trace[d]
             white == WhiteBuffer(cfg)
         IN  /\ job[d].buf = white
             /\ Len(job[d].buf)
                  = fb_initialize(cfg.width, cfg.height, cfg.pixel_format).o.buffer_size
             /\ \A fmt \in PixelFormats, w \in StrideWidths, h \in {1, 2, EPD_MAX_DIMENSION} :
                  /\ clear_width_byte(w, fmt) * h = StrideSize(w, h, fmt)
                  /\ clear_width_byte(w, fmt) * h = FbHeader(w, h, fmt).buffer_size
                  /\ clear_fill_byte(fmt) = WhiteByte(fmt)
             /\ StageRcs(tr, "data") /= <<>> =>
                  /\ \E m \in BOOLEAN :
                       LET r == DisplayData(Hooks(d), cfg, white, m)
                       IN  DataWrite(tr) = r.out /\ StageRcs(tr, "data") = <<r.rc>>
                  /\ Hooks(d).custom_display = NULL =>
                       /\ DataWrite(tr) = GenericDisplayEvents(cfg, white)
                       /\ StageRcs(tr, "data") = <<EPD_OK>>
             /\ job[d].pc = "done" =>
                  (InSeq("post", StagesCalled(tr))
                     <=> (StageRcs(tr, "data") = <<EPD_OK>> /\ Hooks(d).post_display /= NULL))
    /\ (job[d].kind = "none" /\ last[d].op = "clear" /\ last[d].before.state = DEVICE_OPEN) =>
         last[d].exc = SeenByCaller("display", last[d].result)

\* C22, the start of a clear job: cancel is reset to 0 and the job starts where
\* a display job starts, at pre_display with an empty trace.
C22_ClearStart ==
  \A d \in Devices :
    (job[d].kind = "none" /\ job'[d].kind = "clear") =>
      /\ cancel'[d] = 0
      /\ job'[d].pc = "pre"
      /\ job'[d].result = EPD_OK
      /\ trace'[d] = <<>>

\* C22: Device clear sends a buffer of exactly ceil(width*bpp/8)*height bytes
\* (the size of a Framebuffer of the config's width, height and format), every
\* byte the format's fill byte (Mono 0xFF, Gray4 0xFF, Color4 and Color7 0x11),
\* through the same path as display: cancel reset to 0, pre_display, data-write
\* (custom_display if defined, else generic), post_display on success, and the
\* same result translation.
C22_DeviceClear == []C22_ClearJob /\ [][C22_ClearStart]_vars

\* C22's case: clear of the 3 x 1 Color4 model has returned nil after sending
\* two bytes 0x11 between its pre_display and its post_display.
C22_Witness_ColorCleared ==
  \E d \in Devices :
    /\ job[d].kind = "none" /\ last[d].op = "clear" /\ last[d].exc = "none"
    /\ config[d] = "epd_1in64g"
    /\ DataWrite(trace[d]) = <<Cmd(16), Bulk(<<17, 17>>)>>
    /\ StagesCalled(trace[d]) = <<"pre", "data", "post">>

(* ------------------------------------------------------------------ *)
(* epd_generic_init called directly on sequences of resets, busy-waits *)
(* and records, under either busy polarity                             *)
(* ------------------------------------------------------------------ *)

ResetBytes == {0, 1, SEQ_END, SEQ_SW_RESET, SEQ_WAIT_BUSY}

ResetSeqs == UNION {[1..n -> ResetBytes] : n \in 1..MaxSeqLen}

\* One model of each busy polarity.
ResetModels == {"epd_1in64g", "epd_2in13"}

generic_init_call_reset ==
  /\ it.run = 0
  /\ \E model \in ResetModels, seq \in ResetSeqs : it' = InterpEnter(model, seq, 1, <<>>, EPD_OK)
  /\ UNCHANGED <<devvars, hal, mock_busy_state, bw, fb, fbs>>

NextReset ==
  \/ generic_init_call_reset
  \/ generic_init_step
  \/ generic_init_poll
  \/ \E v \in {0, 1} : generic_init_read(v)
  \/ generic_init_delay

SpecReset == Init /\ [][NextReset]_vars

\* The send_command and send_data calls the opcodes of seq from position p up
\* to position stop call for, when each is there in full.
RECURSIVE OpcodeEvents(_, _, _)
OpcodeEvents(seq, p, stop) ==
  IF p >= stop THEN <<>>
  ELSE LET byte == seq[p + 1]
       IN  IF byte = SEQ_SW_RESET THEN <<Cmd(18)>> \o OpcodeEvents(seq, p + 1, stop)
           ELSE IF byte = SEQ_DELAY_MS THEN OpcodeEvents(seq, p + 2, stop)
           ELSE IF byte >= 240 THEN OpcodeEvents(seq, p + 1, stop)
           ELSE LET count == seq[p + 2]
                IN  (<<Cmd(byte)>> \o [k \in 1..count |-> Data(seq[p + 2 + k])])
                      \o OpcodeEvents(seq, p + 2 + count, stop)

\* C23, the states: a busy-wait of the interpreter polls with the config's
\* polarity and the default timeout and reads the pin at most that many times;
\* when the interpreter has returned TimeoutErr it stopped right behind a
\* WAIT_BUSY or SW_RESET, and the commands and data it has emitted are those of
\* the opcodes up to there, none of the rest of the sequence.
C23_BusyState ==
  /\ it.rb.phase /= "off" =>
       /\ it.running
       /\ it.rb.polarity = ModelConfig(it.model).busy_polarity
       /\ it.rb.timeout_ms = EPD_BUSY_TIMEOUT_MS
       /\ it.rb.i <= EPD_BUSY_TIMEOUT_MS
       /\ SeqAt(it.pos - 1) \in {SEQ_WAIT_BUSY, SEQ_SW_RESET}
  /\ (it.returned /\ it.rc = EPD_ERR_TIMEOUT) =>
       /\ it.pos >= 1
       /\ SeqAt(it.pos - 1) \in {SEQ_WAIT_BUSY, SEQ_SW_RESET}
       /\ BusEvents(it.tr) = OpcodeEvents(it.seq, 0, it.pos)
       /\ Len(SelectSeq(it.tr, LAMBDA e : e[1] = "read")) >= EPD_BUSY_TIMEOUT_MS

\* C23, the steps: the iteration on WAIT_BUSY emits nothing and starts one
\* busy-wait; the iteration on SW_RESET emits send_command(0x12) and starts one
\* busy-wait; no other opcode starts one; a busy-wait whose reads have all found
\* the pin busy returns TimeoutErr, and with it the interpreter returns
\* TimeoutErr at once, emitting nothing more.
C23_BusySteps ==
  /\ (AtOpcode /\ it'.ps /= it.ps) =>
       LET wait == ReadBusyEnter(ModelConfig(it.model).busy_polarity, EPD_BUSY_TIMEOUT_MS, NULL)
       IN  CASE SeqAt(it.pos) = SEQ_WAIT_BUSY ->
                  it'.tr = it.tr /\ it'.rb = wait /\ it'.pos = it.pos + 1 /\ it'.running
             [] SeqAt(it.pos) = SEQ_SW_RESET ->
                  /\ it'.tr = Append(it.tr, Cmd(18))
                  /\ it'.rb = wait /\ it'.pos = it.pos + 1 /\ it'.running
             [] OTHER -> it'.rb.phase = "off"
  /\ (it.rb.phase = "poll" /\ it.rb.i >= EPD_BUSY_TIMEOUT_MS /\ it' /= it) =>
       /\ it'.returned /\ ~it'.running
       /\ it'.rc = EPD_ERR_TIMEOUT
       /\ it'.tr = it.tr /\ it'.pos = it.pos
  /\ (it.returned /\ it.run = 1) => it' = it

\* C23: in the interpreter WAIT_BUSY runs one busy-wait with the config's
\* polarity and the default timeout, and SW_RESET emits send_command(0x12) and
\* then runs the same busy-wait; when that busy-wait returns TimeoutErr the
\* interpreter returns TimeoutErr immediately and emits no command or data from
\* the rest of the sequence.
C23_BusyOpcodes == []C23_BusyState /\ [][C23_BusySteps]_vars

\* C23's case: on an active-high model the sequence SW_RESET, record 1 with no
\* data: the pin stayed high, the call returned TimeoutErr and command 1 was
\* never sent.
C23_Witness_ResetTimedOut ==
  /\ it.returned /\ it.rc = EPD_ERR_TIMEOUT
  /\ it.model = "epd_2in13"
  /\ it.seq = <<SEQ_SW_RESET, 1, 0>>
  /\ BusEvents(it.tr) = <<Cmd(18)>>
  /\ it.pos = 1

\* C24: the busy-waits of the init-sequence interpreter (WAIT_BUSY and
\* SW_RESET, also when reached through a custom_init) poll with the device's
\* cancel flag: when the flag is set while init is blocked in a busy-wait, the
\* busy-wait returns TimeoutErr at its next poll and init ends with that result
\* (raised as BusyTimeoutError).
C24_CancelEndsInit ==
  [][\A d \in Devices :
       (/\ job[d].kind = "init"
        /\ job[d].pc = "busy"
        /\ job[d].rb.phase = "poll"
        /\ cancel[d] /= 0
        /\ job'[d] /= job[d])
         => /\ job'[d].pc = "done"
            /\ job'[d].result = EPD_ERR_TIMEOUT]_vars

\* Mode values: the four modes, a value that is none of them, and the largest
\* uint8_t.
ModeBytes == {EPD_MODE_FULL, EPD_MODE_FAST, EPD_MODE_PARTIAL, EPD_MODE_GRAYSCALE, 4, 255}

\* The config has a dedicated sequence for the mode.
Dedicated(cfg, mode) ==
  \/ mode = EPD_MODE_FAST /\ cfg.init_fast_sequence /= <<>>
  \/ mode = EPD_MODE_PARTIAL /\ cfg.init_partial_sequence /= <<>>

\* The sequence the mode is to select.
ModeSequence(cfg, mode) ==
  IF mode = EPD_MODE_FAST /\ Dedicated(cfg, mode) THEN cfg.init_fast_sequence
  ELSE IF mode = EPD_MODE_PARTIAL /\ Dedicated(cfg, mode) THEN cfg.init_partial_sequence
  ELSE cfg.init_sequence

\* C25, the states of an init job: for the job's config and every mode value
\* the sequence selected is the fast one for Fast and the partial one for
\* Partial when the config has it, and the Full one otherwise; for a mode
\* without a dedicated sequence the interpreter and the driver's custom_init
\* after it do what they do for Full; a job blocked in a busy-wait stands
\* behind a WAIT_BUSY or SW_RESET of the sequence of its mode.
C25_Selected ==
  \A d \in Devices :
    job[d].kind = "init" =>
      LET cfg == Cfg(d)
      IN  /\ \A mode \in ModeBytes :
               LET seq == select_init_sequence(cfg, mode)
               IN  /\ seq = ModeSequence(cfg, mode)
                   /\ ~Dedicated(cfg, mode) =>
                        /\ seq = cfg.init_sequence
                        /\ epd_generic_init(cfg, mode, <<>>)
                             = epd_generic_init(cfg, EPD_MODE_FULL, <<>>)
                        /\ \A rc \in Results :
                             CustomInitTail(Hooks(d).custom_init, rc, mode)
                               = CustomInitTail(Hooks(d).custom_init, rc, EPD_MODE_FULL)
          /\ job[d].pc = "busy" =>
               /\ job[d].pos >= 1
               /\ ModeSequence(cfg, job[d].mode)[job[d].pos] \in {SEQ_WAIT_BUSY, SEQ_SW_RESET}

\* C25, the start of an init job: the job and its trace are those of the
\* interpreter run on the sequence of the mode from position 0 up to its first
\* busy-wait or its return.
C25_InitStart ==
  \A d \in Devices :
    (job[d].kind = "none" /\ job'[d].kind = "init") =>
      LET cfg == Cfg(d)
          seq == ModeSequence(cfg, job'[d].mode)
          j == [IdleJob EXCEPT !.kind = "init", !.hook = Hooks(d).custom_init,
                               !.mode = job'[d].mode]
          r == IF seq = <<>> THEN InitFinish(j, <<>>, EPD_ERR_PARAM)
               ELSE InitAdvance(j, InterpRun(cfg, seq, 0, <<>>), cfg)
      IN  job'[d] = r.j /\ trace'[d] = r.tr

WindowWidths == {1, 8, 9, 2040, 2048, 2049, 2056, EPD_MAX_DIMENSION}
WindowHeights == {1, 2, 256, 257, EPD_MAX_DIMENSION}

WindowSeqs == UNION {[1..n -> {SEQ_SET_WINDOW, SEQ_SET_CURSOR}] : n \in 1..2}

\* A config of the given width and height with seq as its Full sequence.
WindowConfig(w, h, seq) ==
  [ModelConfig("epd_2in7_v2") EXCEPT !.width = w, !.height = h, !.init_sequence = seq]

\* epd_generic_init(cfg, EPD_MODE_FULL) from its call to its return; the call
\* is recorded with the width and height of its config.
window_init_call(w, h, seq) ==
  /\ it.run = 0
  /\ LET r == epd_generic_init(WindowConfig(w, h, seq), EPD_MODE_FULL, <<>>)
     IN  /\ r.at = "ret"
         /\ it' = [NoInterp EXCEPT !.model = "epd_2in7_v2", !.seq = seq, !.pos = r.pos,
                                   !.returned = TRUE, !.rc = r.rc, !.tr = r.tr, !.run = 1]
                    @@ [width |-> w, height |-> h]
  /\ UNCHANGED <<devvars, hal, mock_busy_state, bw, fb, fbs>>

NextWindow == \E w \in WindowWidths, h \in WindowHeights, seq \in WindowSeqs : window_init_call(w, h, seq)

SpecWindow == Init /\ [][NextWindow]_vars

\* What SET_WINDOW and SET_CURSOR are to emit for a width and a height.
WindowEvents(w, h) ==
  <<Cmd(68), Data(0), Data((w - 1) \div 8),
    Cmd(69), Data(0), Data(0), Data((h - 1) % 256), Data((h - 1) \div 256)>>

CursorEvents == <<Cmd(78), Data(0), Cmd(79), Data(0), Data(0)>>

RECURSIVE WindowSeqEvents(_, _, _)
WindowSeqEvents(seq, w, h) ==
  IF seq = <<>> THEN <<>>
  ELSE (IF Head(seq) = SEQ_SET_WINDOW THEN WindowEvents(w, h) ELSE CursorEvents)
         \o WindowSeqEvents(Tail(seq), w, h)

\* C26: for every config with 1 <= width, height <= 4096, SET_WINDOW emits
\* send_command(0x44) with data [0x00, (width-1)/8] and send_command(0x45) with
\* data [0x00, 0x00, lo(height-1), hi(height-1)], every data byte being the
\* stated value (the X end is not truncated), and SET_CURSOR emits
\* send_command(0x4E) with data [0x00] and send_command(0x4F) with data
\* [0x00, 0x00].
C26_WindowBytes ==
  it.run = 1 =>
    /\ it.returned /\ it.rc = EPD_OK
    /\ it.tr = WindowSeqEvents(it.seq, it.width, it.height)

\* The n low bits of b, each flipped: the bitwise complement of an n-bit value.
RECURSIVE Flip(_, _)
Flip(b, n) == IF n = 0 THEN 0 ELSE (1 - (b % 2)) + 2 * Flip(b \div 2, n - 1)

\* The driver of d is the 7in5_v2 one.
Is7in5V2(d) == Hooks(d).custom_display = "epd_7in5_v2_display"

\* C27, the states: the data-write of a display or clear job of the 7in5_v2
\* driver that returned Ok has emitted send_command(display_cmd) with the
\* caller's bytes and then send_command(display_cmd_2) with as many bytes, byte i
\* the bitwise complement of the caller's byte i, and nothing else; the
\* complement of the second payload is the first; the job still holds the
\* caller's buffer.  So it is for every one-byte buffer, and two bytes 0x00 give
\* a second write of two bytes 0xFF.
C27_Inverted ==
  \A d \in Devices :
    (/\ job[d].kind \in {"display", "clear"}
     /\ Is7in5V2(d)
     /\ StageRcs(trace[d], "data") = <<EPD_OK>>) =>
      LET cfg == Cfg(d)
          buf == job[d].buf
          out == DataWrite(trace[d])
      IN  /\ Len(out) = 4
          /\ out[1] = Cmd(cfg.display_cmd)
          /\ out[2] = Bulk(buf)
          /\ out[3] = Cmd(cfg.display_cmd_2)
          /\ out[4][1] = "bulk"
          /\ Len(out[4][2]) = Len(buf)
          /\ \A i \in 1..Len(buf) :
               /\ out[4][2][i] = Flip(buf[i], 8)
               /\ Flip(out[4][2][i], 8) = buf[i]
          /\ \A b \in 0..255 :
               LET r == epd_7in5_v2_display(cfg, <<b>>, TRUE)
               IN  /\ r.rc = EPD_OK
                   /\ r.out = <<Cmd(cfg.display_cmd), Bulk(<<b>>),
                                Cmd(cfg.display_cmd_2), Bulk(<<Flip(b, 8)>>)>>
          /\ epd_7in5_v2_display(cfg, <<0, 0>>, TRUE).out[4] = Bulk(<<255, 255>>)

\* C27, the data-write step: the buffer the caller passed is the same before
\* and after it.
C27_BufferKept ==
  \A d \in Devices :
    (Is7in5V2(d) /\ job[d].pc = "data" /\ job'[d].pc /= "data") => job'[d].buf = job[d].buf

\* C27: 7in5_v2 custom_display emits send_command(display_cmd) with the
\* caller's len bytes and then send_command(display_cmd_2) with len bytes, byte
\* i the bitwise complement of the caller's byte i (an all-0x00 buffer gives a
\* second write of all 0xFF); the caller's buffer is byte-identical before and
\* after the call, and inverting the second payload again gives the first.
C27_DualInverted == []C27_Inverted /\ [][C27_BufferKept]_vars

\* C27's case: display of the bytes 0x00, 0xA5 on the 7in5_v2 sent them after
\* command 0x10 and 0xFF, 0x5A after command 0x13.
C27_Witness_SecondIsComplement ==
  \E d \in Devices :
    /\ job[d].kind = "display" /\ config[d] = "epd_7in5_v2"
    /\ job[d].buf = <<0, 165>>
    /\ DataWrite(trace[d]) = <<Cmd(16), Bulk(<<0, 165>>), Cmd(19), Bulk(<<255, 90>>)>>
    /\ StageRcs(trace[d], "data") = <<EPD_OK>>

\* The job of a 7in5_v2 Device whose data-write found no memory for the
\* inverted copy, while it runs (TRUE) or after it returned (FALSE).
AllocFailed(d, running) ==
  /\ Is7in5V2(d)
  /\ StageRcs(trace[d], "data") = <<EPD_ERR_ALLOC>>
  /\ IF running THEN job[d].kind \in {"display", "clear"}
     ELSE job[d].kind = "none" /\ last[d].op \in {"display", "clear"}

\* C28: when malloc of the 7in5_v2 inversion buffer fails, custom_display
\* returns AllocErr having emitted only display_cmd and the caller's buffer:
\* display_cmd_2 and the second bulk write are not emitted, post_display is not
\* run, and the call ends as DeviceError; on every path through custom_display
\* the scratch buffers allocated and the calls of free are equally many, at
\* most one.
C28_AllocFailure ==
  \A d \in Devices :
    /\ AllocFailed(d, TRUE) =>
         /\ DataWrite(trace[d]) = <<Cmd(Cfg(d).display_cmd), Bulk(job[d].buf)>>
         /\ ~InSeq(Cmd(Cfg(d).display_cmd_2), trace[d])
         /\ ~InSeq("post", StagesCalled(trace[d]))
         /\ job[d].result = EPD_ERR_ALLOC
         /\ job[d].pc \in {"post", "done"}
    /\ AllocFailed(d, FALSE) =>
         /\ ~InSeq(Cmd(Cfg(d).display_cmd_2), trace[d])
         /\ ~InSeq("post", StagesCalled(trace[d]))
         /\ last[d].result = EPD_ERR_ALLOC
         /\ last[d].exc = "DeviceError"
    /\ (Is7in5V2(d) /\ job[d].kind \in {"display", "clear"}) =>
         \A m \in BOOLEAN :
           LET r == epd_7in5_v2_display(Cfg(d), job[d].buf, m)
           IN  /\ r.allocated = r.freed
               /\ r.allocated = (IF m /\ job[d].buf /= <<>> THEN 1 ELSE 0)
               /\ (r.rc = EPD_ERR_ALLOC) = (~m /\ job[d].buf /= <<>>)
               /\ (r.rc = EPD_ERR_ALLOC) =>
                    r.out = <<Cmd(Cfg(d).display_cmd), Bulk(job[d].buf)>>

\* A clear of the 7in5_v2 Device sent the first command and the white buffer,
\* found no memory for the copy, and raised DeviceError.
C28_Witness_ClearAllocFailed ==
  \E d \in Devices :
    /\ AllocFailed(d, FALSE)
    /\ last[d].op = "clear"
    /\ DataWrite(trace[d]) = <<Cmd(16), Bulk(<<255, 255>>)>>
    /\ last[d].exc = "DeviceError"

\* The events a hook emits before its first busy-wait.
RECURSIVE LeadingEvents(_)
LeadingEvents(prog) ==
  IF prog = <<>> \/ Head(prog)[1] = "busy" THEN <<>>
  ELSE <<Head(prog)>> \o LeadingEvents(Tail(prog))

\* The places of the trace where the post stage was called.
PostCalls(tr) ==
  {k \in 1..Len(tr) : tr[k][1] = "call" /\ tr[k][2] = "post"}

\* The job's post stage ran the hook h, once: the worker's record names it and
\* the trace goes on with its events.
RanPostHook(d, h) ==
  LET tr == trace[d]
      lead == LeadingEvents(HookProg(h))
  IN  /\ h /= NULL
      /\ job[d].stage = "post"
      /\ job[d].hook = h
      /\ Cardinality(PostCalls(tr)) = 1
      /\ \A k \in PostCalls(tr) :
           /\ Len(tr) >= k + Len(lead)
           /\ SubSeq(tr, k + 1, k + Len(lead)) = lead

\* C29: after a regional data-write that returned Ok the worker runs
\* post_display_region if the driver defines it, otherwise post_display if the
\* driver defines it, never both, and neither when the data-write failed;
\* display, clear and display_dual never run post_display_region.
C29_RegionalPostHook ==
  \A d \in Devices :
    LET hk == Hooks(d)
        ran == PostCalls(trace[d]) /= {}
        wanted == IF hk.post_display_region /= NULL THEN hk.post_display_region
                  ELSE hk.post_display
    IN  /\ job[d].kind = "display_region" =>
             /\ ran => /\ RanPostHook(d, wanted)
                       /\ StageRcs(trace[d], "data") = <<EPD_OK>>
             /\ (job[d].pc = "done" /\ StageRcs(trace[d], "data") = <<EPD_OK>>
                 /\ wanted /= NULL) => ran
             /\ (StageRcs(trace[d], "data") /= <<>>
                 /\ StageRcs(trace[d], "data") /= <<EPD_OK>>) => ~ran
        /\ (job[d].kind \in {"display", "clear", "display_dual"} /\ ran) =>
             /\ RanPostHook(d, hk.post_display)
             /\ job[d].hook /= hk.post_display_region

\* The regional job of the 2in7_v2 driver, which defines both hooks, ran the
\* partial refresh (0x22 0x1C 0x20) and returned Ok.
C29_Witness_RegionalHookRan ==
  \E d \in Devices :
    /\ job[d].kind = "display_region"
    /\ job[d].pc = "done"
    /\ job[d].result = EPD_OK
    /\ Hooks(d).post_display = "ssd1677_turn_on_display"
    /\ job[d].hook = "ssd1680_turn_on_display_partial"
    /\ \E k \in PostCalls(trace[d]) :
         SubSeq(trace[d], k + 1, k + 3) = <<Cmd(34), Data(28), Cmd(32)>>

(* ------------------------------------------------------------------ *)
(* epd_5in83_v2_display_region called directly (tier2_overrides.c) on  *)
(* panels of several sizes, the real 648x480 among them, with regions  *)
(* inside the panel and one pixel beyond its right or lower edge, and  *)
(* with a buffer of the panel's size, one byte short of it, or NULL.   *)
(* The call is recorded in "it" with its panel, region and buffer.     *)
(* ------------------------------------------------------------------ *)

SmallPanels == {<<16, 3>>, <<10, 1>>}
RealPanel == <<648, 480>>
RegionPanels == SmallPanels \cup {RealPanel}

Region(x, y, w, h) == [x |-> x, y |-> y, w |-> w, h |-> h]

RealRegions ==
  {Region(16, 8, 32, 4), Region(256, 256, 8, 2), Region(640, 479, 8, 1),
   Region(250, 255, 10, 2), Region(0, 0, 648, 1), Region(641, 0, 7, 1),
   Region(3, 1, 5, 1), Region(300, 476, 348, 4), Region(644, 479, 8, 2)}

PanelRegions(p) ==
  IF p = RealPanel THEN RealRegions
  ELSE {Region(x, y, w, h) : x \in 0..(p[1] - 1), y \in 0..(p[2] - 1),
                             w \in 1..(p[1] + 1), h \in 1..(p[2] + 1)}

BufKinds == {"full", "short", "null"}

\* The byte at index i of a buffer of the callers: i modulo 251, so that the
\* bytes sent tell the index they were read at.
ByteAtIndex(i) == i % 251

\* The buffer handed to the call: ceil(width / 8) * height bytes, one fewer, or
\* none.
PanelBuffer(p, kind) ==
  LET n == ((p[1] + 7) \div 8) * p[2]
  IN  CASE kind = "full" -> [k \in 1..n |-> ByteAtIndex(k - 1)]
        [] kind = "short" -> [k \in 1..(n - 1) |-> ByteAtIndex(k - 1)]
        [] kind = "null" -> <<>>

PanelConfig(p) == [ModelConfig("epd_5in83_v2") EXCEPT !.width = p[1], !.height = p[2]]

\* epd_5in83_v2_display_region(cfg, buf, buf_len, x, y, w, h), from its call to
\* its return.
display_region_call(p, r, kind) ==
  /\ it.run = 0
  /\ r.x + r.w <= p[1] + 1
  /\ r.y + r.h <= p[2] + 1
  /\ LET res == epd_5in83_v2_display_region(PanelConfig(p), PanelBuffer(p, kind), r)
     IN  it' = [NoInterp EXCEPT !.model = "epd_5in83_v2", !.returned = TRUE,
                                !.rc = res.rc, !.tr = res.out, !.run = 1]
               @@ [width |-> p[1], height |-> p[2], region |-> r, buf |-> kind]
  /\ UNCHANGED <<devvars, hal, mock_busy_state, bw, fb, fbs>>

\* epd_7in5b_v2_display_region(cfg, buf, buf_len, x, y, w, h), from its call to
\* its return; malloc_ok: whether malloc(region_size) returned a buffer.
display_region_call_7in5b(p, r, kind, malloc_ok) ==
  /\ it.run = 0
  /\ r.x + r.w <= p[1] + 1
  /\ r.y + r.h <= p[2] + 1
  /\ LET cfg == [PanelConfig(p) EXCEPT !.name = "epd_7in5b_v2"]
         res == epd_7in5b_v2_display_region(cfg, PanelBuffer(p, kind), r, malloc_ok)
     IN  it' = [NoInterp EXCEPT !.model = "epd_7in5b_v2", !.returned = TRUE,
                                !.rc = res.rc, !.tr = res.out, !.run = 1]
               @@ [width |-> p[1], height |-> p[2], region |-> r, buf |-> kind,
                   malloc_ok |-> malloc_ok]
  /\ UNCHANGED <<devvars, hal, mock_busy_state, bw, fb, fbs>>

NextRegion ==
  \/ /\ it.run = 0
     /\ \E p \in RegionPanels : \E r \in PanelRegions(p), kind \in BufKinds :
          display_region_call(p, r, kind)
  \/ /\ it.run = 0
     /\ \E p \in SmallPanels : \E r \in PanelRegions(p), kind \in BufKinds, malloc_ok \in BOOLEAN :
          display_region_call_7in5b(p, r, kind, malloc_ok)

SpecRegion == Init /\ [][NextRegion]_vars

\* ceil(n / 8), hi(v), lo(v).
CeilDiv8(n) == (n \div 8) + (IF n % 8 = 0 THEN 0 ELSE 1)
Hi(v) == v \div 256
Lo(v) == v % 256

\* The nine data bytes of the partial window of the region r.
NineBytes(r) ==
  LET x_end == r.x + r.w - 1
      y_end == r.y + r.h - 1
  IN  <<Hi(r.x), BitAnd(Lo(r.x), 248), Hi(x_end), BitOr(Lo(x_end), 7),
        Hi(r.y), Lo(r.y), Hi(y_end), Lo(y_end), 1>>

\* The row-th bulk write (row counted from 0) of the region r on a panel
\* width pixels wide.
RowWrite(width, r, row) ==
  LET start == (r.y + row) * CeilDiv8(width) + (r.x \div 8)
  IN  Bulk([k \in 1..CeilDiv8(r.w) |-> ByteAtIndex(start + k - 1)])

RegionEvents(width, r) ==
  <<Cmd(145), Cmd(144)>> \o [k \in 1..9 |-> Data(NineBytes(r)[k])]
  \o <<Cmd(19)>> \o [row \in 1..r.h |-> RowWrite(width, r, row - 1)]
  \o <<Cmd(18), Delay(100)>>

\* The call recorded in "it" is one of epd_5in83_v2_display_region.
RegionCalled == it.run = 1 /\ it.model = "epd_5in83_v2"

InsidePanel(r, width, height) ==
  /\ r.w >= 1 /\ r.h >= 1
  /\ r.x + r.w <= width
  /\ r.y + r.h <= height

\* C30: the 5in83_v2 regional display of (x, y, w, h) inside the panel emits
\* send_command(0x91); send_command(0x90) and the nine data bytes hi(x),
\* x & 0xF8, hi(x_end), the low byte of x_end | 0x07, hi(y), lo(y), hi(y_end),
\* lo(y_end), 0x01; send_command(0x13); h bulk writes, the r-th of ceil(w / 8)
\* bytes read from index (y + r) * ceil(width / 8) + x / 8 on; send_command(0x12);
\* a delay of 100 ms.  For (16, 8, 32, 4) on 648 x 480 the nine bytes are
\* 00 10 00 2F 00 08 00 0B 01 and row r is the 4 bytes from index (8 + r) * 81 + 2.
C30_RegionEvents ==
  RegionCalled =>
    /\ (it.buf = "full" /\ InsidePanel(it.region, it.width, it.height)) =>
         /\ it.tr = RegionEvents(it.width, it.region)
         /\ it.rc = EPD_OK
    /\ (it.rc = EPD_OK) = (it.buf = "full")
    /\ it.rc /= EPD_OK => it.tr = <<>>
    /\ (it.buf = "full" /\ <<it.width, it.height>> = RealPanel
        /\ it.region = Region(16, 8, 32, 4)) =>
         /\ SubSeq(it.tr, 3, 11) = <<Data(0), Data(16), Data(0), Data(47), Data(0),
                                     Data(8), Data(0), Data(11), Data(1)>>
         /\ \A row \in 0..3 :
              it.tr[13 + row] =
                Bulk([k \in 1..4 |-> ByteAtIndex((8 + row) * 81 + 2 + k - 1)])

\* The call for (16, 8, 32, 4) on 648 x 480 returned Ok: 18 events, the window
\* bytes 00 10 00 2F 00 08 00 0B 01, the first row read at index 650 and the
\* last at index 893.
C30_Witness_ExampleRegion ==
  /\ RegionCalled
  /\ it.rc = EPD_OK
  /\ it.width = 648 /\ it.height = 480
  /\ it.region = Region(16, 8, 32, 4)
  /\ Len(it.tr) = 18
  /\ it.tr[4] = Data(16) /\ it.tr[6] = Data(47) /\ it.tr[10] = Data(11)
  /\ it.tr[13] = Bulk(<<148, 149, 150, 151>>)
  /\ it.tr[16] = Bulk(<<140, 141, 142, 143>>)
  /\ it.tr[17] = Cmd(18) /\ it.tr[18] = Delay(100)

(* ------------------------------------------------------------------ *)
(* Claims about the UC8179 regional jobs, the dual-buffer writes, the   *)
(* mock HAL and the driver table                                        *)
(* ------------------------------------------------------------------ *)

\* The commands, data and delays of a trace, without the markers.
HalEvents(tr) == SelectSeq(tr, LAMBDA e : e[1] \in {"cmd", "data", "bulk", "delay"})

\* The Device is one of a UC8179 model with a regional data-write.
Uc8179(d) == config[d] \in {"epd_5in83_v2", "epd_7in5b_v2"}

\* The places of a trace where the command c went out.
CmdAt(tr, c) == {k \in 1..Len(tr) : IsCmd(tr[k], c)}

\* C31: in a regional job of a UC8179 Device send_command(0x92) is emitted
\* only in the post stage, only after send_command(0x12) and only after a pin
\* read of the post-hook's busy-wait; a job that returned Ok has a trace that
\* starts with send_command(0x91) and ends with send_command(0x92).
C31_PartialExit ==
  \A d \in Devices :
    (Uc8179(d) /\ job[d].kind = "display_region") =>
      LET tr == trace[d]
          ev == HalEvents(tr)
      IN  /\ \A k \in CmdAt(tr, 146) :
               /\ \E c \in PostCalls(tr) : c < k
               /\ \E g \in CmdAt(tr, 18) : g < k
               /\ k > 1 /\ tr[k - 1][1] = "read"
          /\ (job[d].pc = "done" /\ job[d].result = EPD_OK) =>
               /\ ev /= <<>>
               /\ ev[1] = Cmd(145)
               /\ ev[Len(ev)] = Cmd(146)

\* The job of d writes two buffers: display_dual, or display and clear through
\* the 7in5_v2 custom_display.
DualBufferJob(d) ==
  \/ job[d].kind = "display_dual"
  \/ job[d].kind \in {"display", "clear"} /\ Is7in5V2(d)

\* The places of the bulk writes and of the unblock function in a trace.
BulkAt(tr) == {k \in 1..Len(tr) : tr[k][1] = "bulk"}
UbfAt(tr) == {k \in 1..Len(tr) : tr[k][1] = "ubf"}

\* The flag was set by the time the first bulk write of the trace had completed:
\* before it, or as the next thing after it.
CancelledAtBoundary(tr) ==
  /\ BulkAt(tr) /= {}
  /\ \E u \in UbfAt(tr) : \A k \in BulkAt(tr) : u <= k + 1

\* C32: in a dual-buffer data-write (display_dual; the 7in5_v2 custom_display)
\* whose cancel flag is set by the time the first bulk write has completed,
\* nothing is emitted after the first bulk write: no second command, no second
\* bulk write, no post_display; the job ends with TimeoutErr.  Every bulk write
\* carries a whole buffer.
C32_BufferBoundary ==
  \A d \in Devices :
    DualBufferJob(d) =>
      LET tr == trace[d]
      IN  /\ \A k \in BulkAt(tr) :
               Len(tr[k][2]) \in {Len(job[d].buf), Len(job[d].buf2)}
          /\ CancelledAtBoundary(tr) =>
               /\ Cardinality(BulkAt(tr)) = 1
               /\ \A k \in BulkAt(tr) : HalEvents(SubSeq(tr, k + 1, Len(tr))) = <<>>
               /\ PostCalls(tr) = {}
               /\ job[d].pc = "done" => job[d].result = EPD_ERR_TIMEOUT

\* epd_read_busy run to its return against the mock HAL by a single caller,
\* its flag never set: the return code, the pin reads made, and the toggle left.
RECURSIVE MockReadBusy(_, _)
MockReadBusy(rb, toggle) ==
  LET p == ReadBusyPoll(rb, 0)
      v == DEV_Digital_Read(toggle)
      r == ReadBusyRead(p.rb, v)
      n == MockReadBusy(ReadBusyDelay(r.rb), v)
  IN  IF p.done THEN [rc |-> p.rc, reads |-> 0, toggle |-> toggle]
      ELSE IF r.done THEN [rc |-> r.rc, reads |-> 1, toggle |-> v]
      ELSE [n EXCEPT !.reads = @ + 1]

\* The pin reads of the busy-wait the job of d is in (rb.i counts the delays).
ReadsSoFar(rb) == rb.i + (IF rb.phase = "delay" THEN 1 ELSE 0)

\* No cancel was fired at the job whose trace d holds: the unblock function
\* did not run (init is given no flag).
NotCancelled(d, kind) == kind = "init" \/ UbfAt(trace[d]) = {}

JobKinds == OffLockKinds \cup {"init"}

\* C33: against the mock HAL with a single caller, every epd_read_busy with
\* timeout_ms >= 2 whose flag is not set returns EPD_OK after at most two pin
\* reads, from either value of the toggle and under either polarity; no init,
\* display, display_dual, display_region or clear that was not cancelled ends
\* with EPD_ERR_TIMEOUT.
C33_MockTerminates ==
  \A d \in Devices :
    hal = "mock" =>
      /\ (job[d].kind \in JobKinds /\ NotCancelled(d, job[d].kind)) =>
           /\ job[d].result /= EPD_ERR_TIMEOUT
           /\ job[d].pc = "busy" =>
                /\ job[d].rb.timeout_ms >= 2
                /\ ReadsSoFar(job[d].rb) <= 1
                /\ \A toggle \in {0, 1}, polarity \in Polarities, t \in 2..MaxTimeout :
                     LET m == MockReadBusy(ReadBusyEnter(polarity, t, "dev"), toggle)
                     IN  m.rc = EPD_OK /\ m.reads \in {1, 2}
                /\ job[d].rb.phase = "poll" =>
                     MockReadBusy(job[d].rb, mock_busy_state).rc = EPD_OK
      /\ (job[d].kind = "none" /\ last[d].op \in JobKinds /\ NotCancelled(d, last[d].op)) =>
           /\ last[d].result /= EPD_ERR_TIMEOUT
           /\ last[d].exc /= "BusyTimeoutError"

\* A display against the mock HAL whose post_display polled under ActiveLow
\* from toggle 1: the first read was 0 (busy), the second 1, and it returned Ok.
C33_Witness_SecondReadIdle ==
  \E d \in Devices :
    /\ hal = "mock"
    /\ job[d].kind = "display"
    /\ job[d].pc = "done"
    /\ job[d].result = EPD_OK
    /\ Cfg(d).busy_polarity = BUSY_ACTIVE_LOW
    /\ \E k \in 1..(Len(trace[d]) - 3) :
         /\ trace[d][k] = Read(0)
         /\ trace[d][k + 1] = Delay(1)
         /\ trace[d][k + 3] = Read(1)

\* C34: in every reachable state of a Device, state == DEVICE_OPEN implies that
\* config refers to an entry of the registry and that driver is absent or the
\* driver of the config's name; no hardware call runs with an absent config.
C34_OpenHasConfig ==
  /\ \A d \in Devices :
       (alive[d] /\ state[d] = DEVICE_OPEN) =>
         /\ config[d] /= NULL
         /\ epd_find_config(config[d]) = config[d]
         /\ driver[d] \in {NULL, config[d]}
  /\ ~crashed

\* C35: the UC8179 regional data-write never reads the caller's buffer at an
\* index >= buf_len: for every region that passes the length validation, those
\* that extend past the right or lower edge included, every byte streamed after
\* 0x13 comes from an index (y + row) * full_width_bytes + x / 8 + k < buf_len;
\* a buffer shorter than full_width_bytes * height is rejected with
\* EPD_ERR_PARAM before anything is emitted.
C35_ReadsInsideBuffer ==
  RegionCalled =>
    LET p == <<it.width, it.height>>
        r == it.region
        l == RegionLocals(PanelConfig(p), r)
        buf_len == Len(PanelBuffer(p, it.buf))
    IN  /\ buf_len < l.full_width_bytes * it.height => (it.rc = EPD_ERR_PARAM /\ it.tr = <<>>)
        /\ it.rc = EPD_OK =>
             /\ \A row \in 0..(r.h - 1), k \in 0..(l.region_width_bytes - 1) :
                  (r.y + row) * l.full_width_bytes + l.x_byte_start + k < buf_len
             /\ \A e \in BulkAt(it.tr) : \A j \in 1..Len(it.tr[e][2]) : it.tr[e][2][j] < 256

\* The byte width of the window the 0x90 command declares for the region r:
\* from x with its low three bits cleared to x_end with them set.
WindowBytesDeclared(r) ==
  LET x_end == r.x + r.w - 1
  IN  (BitOr(x_end, 7) - (r.x - BitAnd(r.x, 7)) + 1) \div 8

\* C36: for every region inside the panel, x not a multiple of 8 included,
\* each row streamed after 0x13 has as many bytes as the window declared in
\* the 0x90 command is wide, ((x_end | 7) - (x & 0xF8) + 1) / 8, so that the
\* rows cover every pixel column from x to x + w - 1.
C36_RowsCoverWindow ==
  (RegionCalled /\ it.rc = EPD_OK /\ InsidePanel(it.region, it.width, it.height)) =>
    /\ Cardinality(BulkAt(it.tr)) = it.region.h
    /\ \A e \in BulkAt(it.tr) : Len(it.tr[e][2]) = WindowBytesDeclared(it.region)

\* The call recorded in "it" is one of a UC8179 regional data-write.
Uc8179Called == it.run = 1 /\ it.model \in {"epd_5in83_v2", "epd_7in5b_v2"}

\* C37: a UC8179 regional job that has emitted send_command(0x91) emits
\* send_command(0x92) before it returns, whatever its result.  The worker runs
\* no post-hook after a data-write that did not return EPD_OK, so such a
\* data-write that emitted 0x91 has to have emitted 0x92 itself.
C37_PartialModeLeft ==
  (Uc8179Called /\ HasCmd(it.tr, 145) /\ it.rc /= EPD_OK) => HasCmd(it.tr, 146)

\* C38: for two Framebuffers of the same width, height and format, each
\* reached from construction by set_pixel and clear, a == b returns true exactly
\* when get_pixel(x, y) is equal in both for every in-bounds (x, y); the
\* padding bits of the last byte of a row never decide the comparison.
C38_EqualityIsPixelwise ==
  (/\ fbs.last.op = "eq"
   /\ PairA.width = PairB.width /\ PairA.height = PairB.height
   /\ PairA.pixel_format = PairB.pixel_format) =>
    (fbs.last.ret <=> Pixels(PairA) = Pixels(PairB))

\* C39: with two Devices running jobs against the mock HAL, whose BUSY toggle
\* is one variable of the process flipped by every pin read of either job, and
\* with no cancel fired, every busy-wait of either job returns EPD_OK: no
\* interleaving of the two jobs' polls makes a job exhaust its timeout and end
\* with EPD_ERR_TIMEOUT.
C39_SharedToggle ==
  (hal = "mock" /\ \A d \in Devices : UbfAt(trace[d]) = {}) =>
    \A d \in Devices :
      /\ job[d].kind \in OffLockKinds =>
           /\ job[d].result /= EPD_ERR_TIMEOUT
           /\ \A k \in 1..Len(trace[d]) :
                trace[d][k][1] = "poll" => trace[d][k][2] /= "expired"
      /\ (job[d].kind = "none" /\ last[d].op \in OffLockKinds) =>
           last[d].exc /= "BusyTimeoutError"

\* Every model name tier2_register_overrides passes to find_driver_slot.
OverrideTargets ==
  {tier2_model_names[i] : i \in 1..TIER2_COUNT}
    \cup {"epd_2in9b_v4", "epd_13in3b", "epd_5in83_v2", "epd_7in5b_v2"}

\* tier2_resolve_configs has run: device_initialize calls epd_find_driver right
\* after it has stored a config that is not NULL.
tier2_initialized == \E d \in Devices : config[d] /= NULL

\* The names tier2_register_overrides assigns a hook for.
HookedNames == {name \in OverrideTargets : Overrides(name) /= NoHooks}

\* C40: every model name for which tier2_register_overrides assigns a hook has
\* a slot in the Tier-2 driver table and its driver carries the hook;
\* epd_find_driver of such a name that has a config returns the driver of that
\* name; an initialized Device of a UC8179 model therefore holds a driver with
\* custom_display_region and uc8179_post_display_region, and its regional job
\* runs that post-hook after a data-write that returned Ok.
C40_HookedNamesHaveSlots ==
  /\ tier2_initialized =>
       \A name \in HookedNames :
         /\ find_driver_slot(name) /= 0
         /\ tier2_register_overrides(name) = Overrides(name)
         /\ epd_find_config(name) /= NULL => epd_find_driver(name) = name
  /\ \A d \in Devices :
       (state[d] = DEVICE_OPEN /\ config[d] /= NULL /\ Uc8179(d)) =>
         /\ driver[d] = config[d]
         /\ Hooks(d).custom_display_region /= NULL
         /\ Hooks(d).post_display_region = "uc8179_post_display_region"
         /\ (job[d].kind = "display_region" /\ job[d].pc = "done"
             /\ StageRcs(trace[d], "data") = <<EPD_OK>>) =>
              RanPostHook(d, "uc8179_post_display_region")

====
